---- MODULE Spec2Model ----
(***************************************************************************)
(* Constraint-generation core of the compiler: the expression evaluator    *)
(* (src/src/program/constraints/expression.rs), the field-element gadgets  *)
(* and parameter binder (src/src/program/constraints/field_element.rs).    *)
(*                                                                         *)
(* A compile session binds the parameters of `main`, executes the          *)
(* definitions of its body and then enforces one expression.  The          *)
(* evaluator is the recursive operator enforce_expression; it threads a    *)
(* machine record m = [store, cs, trace]:                                  *)
(*   store  the ResolvedProgram name table (String -> ResolvedValue),      *)
(*   cs     the constraint system: allocations and constraints, in order,  *)
(*   trace  the history of evaluator calls and builder invocations.        *)
(* A panic (unimplemented!, unwrap, expect, slice bounds) is a fatal       *)
(* result: evaluation stops where it happened.                             *)
(*                                                                         *)
(* Besides the session state, built remembers the values the members of    *)
(* the struct instance s resolved to when s was defined, and visibility is *)
(* the visibility the parameter f of main is declared with and            *)
(* parameter_type its type; input is the command line read by the binder   *)
(* step just taken.  A lowering session converts the node untyped into     *)
(* lowered (src/src/program/types_from.rs and                              *)
(* src/ast/src/statements/conditional_statement.rs).                       *)
(***************************************************************************)
EXTENDS Integers, Sequences, FiniteSets, TLC

VARIABLES phase, pos, store, cs, trace, expr, resolved, before, built, visibility,
          parameter_type, input, untyped, lowered

vars == <<phase, pos, store, cs, trace, expr, resolved, before, built, visibility,
          parameter_type, input, untyped, lowered>>

----------------------------------------------------------------------------
(* Bounds of the model *)

\* largest u32 value supplied as an input to main
MaxInt == 1
\* longest array literal; integer literals range over 0..MaxLen
MaxLen == 5
\* order of the field F the model computes in
FieldModulus == 3
\* deepest nesting of conversion calls the stack has room for
MaxDepth == 6
\* most links of an else-if chain
MaxChain == 3

----------------------------------------------------------------------------
(* Option<T> *)

None == <<>>
Some(x) == <<x>>
is_some(o) == Len(o) = 1
unwrap(o) == o[1]
unwrap_or_default(o, default) == IF is_some(o) THEN unwrap(o) ELSE default

----------------------------------------------------------------------------
(* ResolvedValue *)

NoValue == [kind |-> "None"]
\* Boolean::Constant(b) when const, Boolean::Is(allocated bit holding b) otherwise
ResolvedValue_Boolean(const, b) == [kind |-> "Boolean", const |-> const, b |-> b]
\* UInt32 gadget: value is the Option<u32> it carries, alloc tells a constant from a variable
ResolvedValue_U32(value, alloc) == [kind |-> "U32", value |-> value, alloc |-> alloc]
ResolvedValue_FieldElement(fe) == [kind |-> "FieldElement", fe |-> fe]
ResolvedValue_Array(elems) == [kind |-> "Array", elems |-> elems]
ResolvedValue_StructExpression(variable, members) ==
    [kind |-> "StructExpression", variable |-> variable, members |-> members]
ResolvedValue_StructDefinition(fields) == [kind |-> "StructDefinition", fields |-> fields]
ResolvedValue_Function(function) == [kind |-> "Function", function |-> function]
\* the output tuple of a function activation
ResolvedValue_Return(values) == [kind |-> "Return", values |-> values]

Boolean_Constant(b) == ResolvedValue_Boolean(TRUE, b)

----------------------------------------------------------------------------
(* Expression *)

NoExpr == [tag |-> "None"]
Expression_Variable(name) == [tag |-> "Variable", name |-> name]
Expression_Integer(n) == [tag |-> "Integer", n |-> n]
Expression_FieldElement(fe) == [tag |-> "FieldElement", fe |-> fe]
Expression_Boolean(b) == [tag |-> "Boolean", b |-> b]
Expression_Binary(tag, left, right) == [tag |-> tag, left |-> left, right |-> right]
Expression_Not(e) == [tag |-> "Not", expression |-> e]
Expression_IfElse(first, second, third) ==
    [tag |-> "IfElse", first |-> first, second |-> second, third |-> third]
\* elements: sequence of SpreadOrExpression
Expression_Array(elements) == [tag |-> "Array", elements |-> elements]
Expression_ArrayAccess(array, index) == [tag |-> "ArrayAccess", array |-> array, index |-> index]
Expression_Struct(variable, members) ==
    [tag |-> "Struct", variable |-> variable, members |-> members]
Expression_StructMemberAccess(struct_variable, struct_member) ==
    [tag |-> "StructMemberAccess", struct_variable |-> struct_variable,
     struct_member |-> struct_member]
Expression_FunctionCall(function, arguments) ==
    [tag |-> "FunctionCall", function |-> function, arguments |-> arguments]

SpreadOrExpression_Spread(e) == [spread |-> TRUE, expression |-> e]
SpreadOrExpression_Expression(e) == [spread |-> FALSE, expression |-> e]
RangeOrExpression_Range(from, to) == [range |-> TRUE, from |-> from, to |-> to]
RangeOrExpression_Expression(e) == [range |-> FALSE, expression |-> e]
StructMember(variable, expression) == [variable |-> variable, expression |-> expression]
StructField(variable, ty) == [variable |-> variable, ty |-> ty]
\* a function definition: its name, formal parameters and returned expressions
Function(function_name, parameters, returns) ==
    [function_name |-> function_name, parameters |-> parameters, returns |-> returns]

NumericTags == {"Add", "Sub", "Mul", "Div", "Pow"}
BooleanTags == {"Or", "And", "Eq"}
ComparisonTags == {"Geq", "Gt", "Leq", "Lt"}
LeafTags == {"Variable", "Integer", "FieldElement", "Boolean"}

----------------------------------------------------------------------------
(* The machine threaded through the evaluator, and evaluation results *)

Machine(s, c, t) == [store |-> s, cs |-> c, trace |-> t]

Ok(m, v) == [m |-> m, ok |-> TRUE, val |-> v, err |-> "none"]
Fatal(m, msg) == [m |-> m, ok |-> FALSE, val |-> NoValue, err |-> msg]

\* every trace event is stamped with the number of cs entries made before it;
\* an exit event carries the value returned
Event(m, ev, d, e, op, v) ==
    [ev |-> ev, depth |-> d, expr |-> e, op |-> op, val |-> v, ncs |-> Len(m.cs)]
Log(m, event) == [m EXCEPT !.trace = Append(@, event)]
Enter(m, e, d) == Log(m, Event(m, "enter", d, e, "", NoValue))
Exit(m, e, d, v) == Log(m, Event(m, "exit", d, e, "", v))
Invoke(m, op, d) == Log(m, Event(m, "builder", d, NoExpr, op, NoValue))
\* entry of a function activation: the function and the arguments handed to it
Activate(m, function, arguments, d) ==
    Log(m, Event(m, "activation", d, [tag |-> "Arguments", arguments |-> arguments],
                 function.function_name, NoValue))

\* ConstraintSystem::alloc, alloc_input and enforce: each appends to the system
cs_alloc(m, name) == [m EXCEPT !.cs = Append(@, [kind |-> "alloc", name |-> name])]
cs_alloc_input(m, name) ==
    [m EXCEPT !.cs = Append(@, [kind |-> "alloc_input", name |-> name])]
cs_enforce(m, name) == [m EXCEPT !.cs = Append(@, [kind |-> "constraint", name |-> name])]

----------------------------------------------------------------------------
(* ResolvedProgram: the name table *)

new_scope_from_variable(scope, variable) == scope \o "_" \o variable
new_variable_from_variable(scope, variable) == scope \o "_" \o variable
contains_name(m, name) == name \in DOMAIN m.store
contains_variable(m, variable) == variable \in DOMAIN m.store
get(m, name) == IF name \in DOMAIN m.store THEN Some(m.store[name]) ELSE None
store_variable(m, name, value) ==
    [m EXCEPT !.store = [n \in DOMAIN @ \cup {name} |-> IF n = name THEN value ELSE @[n]]]

----------------------------------------------------------------------------
(* Gadget builders for bounded integers and booleans *)

get_integer_constant(n) == ResolvedValue_U32(Some(n), FALSE)
get_boolean_constant(b) == Boolean_Constant(b)

RECURSIVE u32_pow(_, _)
u32_pow(a, b) == IF b = 0 THEN 1 ELSE a * u32_pow(a, b - 1)

\* the concrete result of a u32 operation; None when the primitive fails
u32_result(op, a, b) ==
    CASE op = "add" -> Some(a + b)
      [] op = "sub" -> IF a >= b THEN Some(a - b) ELSE None
      [] op = "mul" -> Some(a * b)
      [] op = "div" -> IF b # 0 THEN Some(a \div b) ELSE None
      [] op = "pow" -> Some(u32_pow(a, b))

\* one builder per operator: emits the constraint realizing the relation and
\* returns the resulting integer; a failure of the primitive is fatal
enforce_u32(m, op, num1, num2, d) ==
    LET name == "enforce_u32_" \o op
        m1 == Invoke(m, name, d)
        known == is_some(num1.value) /\ is_some(num2.value)
        value == IF known THEN u32_result(op, unwrap(num1.value), unwrap(num2.value))
                 ELSE None
    IN  IF known /\ ~is_some(value) THEN Fatal(m1, "primitive failure")
        ELSE Ok(cs_enforce(m1, name), ResolvedValue_U32(value, num1.alloc \/ num2.alloc))

enforce_u32_add(m, num1, num2, d) == enforce_u32(m, "add", num1, num2, d)
enforce_u32_sub(m, num1, num2, d) == enforce_u32(m, "sub", num1, num2, d)
enforce_u32_mul(m, num1, num2, d) == enforce_u32(m, "mul", num1, num2, d)
enforce_u32_div(m, num1, num2, d) == enforce_u32(m, "div", num1, num2, d)
enforce_u32_pow(m, num1, num2, d) == enforce_u32(m, "pow", num1, num2, d)

enforce_u32_eq(m, num1, num2, d) ==
    LET m1 == Invoke(m, "enforce_u32_eq", d)
    IN  Ok(cs_enforce(m1, "enforce_u32_eq"), Boolean_Constant(num1.value = num2.value))

enforce_boolean_eq(m, bool1, bool2, d) ==
    LET m1 == Invoke(m, "enforce_boolean_eq", d)
    IN  Ok(cs_enforce(m1, "enforce_boolean_eq"), Boolean_Constant(bool1.b = bool2.b))

enforce_not(m, value, d) ==
    IF value.kind = "Boolean"
    THEN Ok(Invoke(m, "enforce_not", d), ResolvedValue_Boolean(value.const, ~value.b))
    ELSE Fatal(m, "cannot enforce not")

enforce_or(m, left, right, d) ==
    IF left.kind = "Boolean" /\ right.kind = "Boolean"
    THEN LET m1 == Invoke(m, "enforce_or", d)
         IN  Ok(cs_enforce(m1, "enforce_or"),
                ResolvedValue_Boolean(left.const /\ right.const, left.b \/ right.b))
    ELSE Fatal(m, "cannot enforce or")

enforce_and(m, left, right, d) ==
    IF left.kind = "Boolean" /\ right.kind = "Boolean"
    THEN LET m1 == Invoke(m, "enforce_and", d)
         IN  Ok(cs_enforce(m1, "enforce_and"),
                ResolvedValue_Boolean(left.const /\ right.const, left.b /\ right.b))
    ELSE Fatal(m, "cannot enforce and")

----------------------------------------------------------------------------
(* Gadget builders for field elements (field_element.rs) *)

\* the inverses of fe in F: empty for zero
field_inverses(fe) == {x \in 0..(FieldModulus - 1) : (x * fe) % FieldModulus = 1}

enforce_field_eq(m, fe1, fe2, d) ==
    Ok(Invoke(m, "enforce_field_eq", d), Boolean_Constant(fe1 = fe2))

enforce_field_add(m, fe1, fe2, d) ==
    Ok(Invoke(m, "enforce_field_add", d), ResolvedValue_FieldElement((fe1 + fe2) % FieldModulus))

enforce_field_sub(m, fe1, fe2, d) ==
    Ok(Invoke(m, "enforce_field_sub", d),
       ResolvedValue_FieldElement((fe1 + FieldModulus - fe2) % FieldModulus))

enforce_field_mul(m, fe1, fe2, d) ==
    Ok(Invoke(m, "enforce_field_mul", d), ResolvedValue_FieldElement((fe1 * fe2) % FieldModulus))

enforce_field_div(m, fe1, fe2, d) ==
    LET m1 == Invoke(m, "enforce_field_div", d)
    IN  IF field_inverses(fe2) = {} THEN Fatal(m1, "field division failed")
        ELSE Ok(m1, ResolvedValue_FieldElement(
                      (fe1 * (CHOOSE x \in field_inverses(fe2) : TRUE)) % FieldModulus))

enforce_field_pow(m, fe1, fe2, d) ==
    Fatal(Invoke(m, "enforce_field_pow", d), "field element exponentiation not supported")

----------------------------------------------------------------------------
(* Operator dispatch on the resolved operand kinds (expression.rs) *)

\* an addition that coerces an integer to the field when the kinds differ
enforce_add_expression_coercing(m, left, right, d) ==
    IF left.kind = "U32" /\ right.kind = "U32" THEN enforce_u32_add(m, left, right, d)
    ELSE IF left.kind = "FieldElement" /\ right.kind = "FieldElement"
    THEN enforce_field_add(m, left.fe, right.fe, d)
    ELSE IF left.kind = "U32" /\ is_some(left.value) /\ right.kind = "FieldElement"
    THEN enforce_field_add(m, unwrap(left.value) % FieldModulus, right.fe, d)
    ELSE Fatal(m, "cannot add")

enforce_add_expression(m, left, right, d) ==
    IF left.kind = "U32" /\ right.kind = "U32" THEN enforce_u32_add(m, left, right, d)
    ELSE IF left.kind = "FieldElement" /\ right.kind = "FieldElement"
    THEN enforce_field_add(m, left.fe, right.fe, d)
    ELSE Fatal(m, "cannot add")

enforce_sub_expression(m, left, right, d) ==
    IF left.kind = "U32" /\ right.kind = "U32" THEN enforce_u32_sub(m, left, right, d)
    ELSE IF left.kind = "FieldElement" /\ right.kind = "FieldElement"
    THEN enforce_field_sub(m, left.fe, right.fe, d)
    ELSE Fatal(m, "cannot subtract")

enforce_mul_expression(m, left, right, d) ==
    IF left.kind = "U32" /\ right.kind = "U32" THEN enforce_u32_mul(m, left, right, d)
    ELSE IF left.kind = "FieldElement" /\ right.kind = "FieldElement"
    THEN enforce_field_mul(m, left.fe, right.fe, d)
    ELSE Fatal(m, "cannot multiply")

enforce_div_expression(m, left, right, d) ==
    IF left.kind = "U32" /\ right.kind = "U32" THEN enforce_u32_div(m, left, right, d)
    ELSE IF left.kind = "FieldElement" /\ right.kind = "FieldElement"
    THEN enforce_field_div(m, left.fe, right.fe, d)
    ELSE Fatal(m, "cannot multiply")

enforce_pow_expression(m, left, right, d) ==
    IF left.kind = "U32" /\ right.kind = "U32" THEN enforce_u32_pow(m, left, right, d)
    ELSE IF left.kind = "FieldElement" /\ right.kind = "FieldElement"
    THEN enforce_field_pow(m, left.fe, right.fe, d)
    ELSE Fatal(m, "cannot multiply")

\* an equality that answers false for operands of different kinds
enforce_eq_expression_cross_kind(m, left, right, d) ==
    IF left.kind = "Boolean" /\ right.kind = "Boolean"
    THEN enforce_boolean_eq(m, left, right, d)
    ELSE IF left.kind = "U32" /\ right.kind = "U32" THEN enforce_u32_eq(m, left, right, d)
    ELSE IF left.kind = "FieldElement" /\ right.kind = "FieldElement"
    THEN enforce_field_eq(m, left.fe, right.fe, d)
    ELSE Ok(m, Boolean_Constant(FALSE))

enforce_eq_expression(m, left, right, d) ==
    IF left.kind = "Boolean" /\ right.kind = "Boolean"
    THEN enforce_boolean_eq(m, left, right, d)
    ELSE IF left.kind = "U32" /\ right.kind = "U32" THEN enforce_u32_eq(m, left, right, d)
    ELSE IF left.kind = "FieldElement" /\ right.kind = "FieldElement"
    THEN enforce_field_eq(m, left.fe, right.fe, d)
    ELSE Fatal(m, "cannot enforce equality")

----------------------------------------------------------------------------
(* The expression evaluator (expression.rs) *)

RECURSIVE enforce_expression(_, _, _, _)
RECURSIVE enforce_array_elements(_, _, _, _, _, _)
RECURSIVE enforce_struct_members(_, _, _, _, _, _)
RECURSIVE enforce_function_arguments(_, _, _, _, _, _)
RECURSIVE enforce_return_statement(_, _, _, _, _, _)

get_mut_variable(m, variable) == get(m, variable)
\* Integer::to_usize: the u32 widened to usize
to_usize(integer) == integer

\* a lookup that allocates the variable again on every reference
enforce_variable_allocating(m, scope, unresolved_variable) ==
    LET variable_name == new_scope_from_variable(scope, unresolved_variable)
    IN  IF contains_name(m, variable_name)
        THEN Ok(cs_alloc(m, unresolved_variable), m.store[variable_name])
        ELSE IF contains_variable(m, unresolved_variable)
        THEN Ok(m, m.store[unresolved_variable])
        ELSE Fatal(m, "variable declaration not found")

\* a lookup that consults the global table before the activation's scope
enforce_variable_global_first(m, scope, unresolved_variable) ==
    LET variable_name == new_scope_from_variable(scope, unresolved_variable)
    IN  IF contains_variable(m, unresolved_variable)
        THEN Ok(m, m.store[unresolved_variable])
        ELSE IF contains_name(m, variable_name) THEN Ok(m, m.store[variable_name])
        ELSE Fatal(m, "variable declaration not found")

\* a lookup whose order depends on a process-wide record of the evaluation
\* made before, a value that is no part of its arguments
enforce_variable_ambient(m, scope, unresolved_variable) ==
    LET variable_name == new_scope_from_variable(scope, unresolved_variable)
    IN  IF trace # <<>> /\ contains_variable(m, unresolved_variable)
        THEN Ok(m, m.store[unresolved_variable])
        ELSE IF contains_name(m, variable_name) THEN Ok(m, m.store[variable_name])
        ELSE IF contains_variable(m, unresolved_variable)
        THEN Ok(m, m.store[unresolved_variable])
        ELSE Fatal(m, "variable declaration not found")

enforce_variable(m, scope, unresolved_variable) ==
    LET variable_name == new_scope_from_variable(scope, unresolved_variable)
    IN  IF contains_name(m, variable_name) THEN Ok(m, m.store[variable_name])
        ELSE IF contains_variable(m, unresolved_variable)
        THEN Ok(m, m.store[unresolved_variable])
        ELSE Fatal(m, "variable declaration not found")

\* the operands resolved in the opposite order
enforce_operands_right_first(m, scope, left, right, d) ==
    LET resolved_right == enforce_expression(m, scope, right, d + 1)
    IN  IF ~resolved_right.ok THEN [r |-> resolved_right, left |-> NoValue, right |-> NoValue]
        ELSE LET resolved_left == enforce_expression(resolved_right.m, scope, left, d + 1)
             IN  [r |-> resolved_left, left |-> resolved_left.val,
                  right |-> resolved_right.val]

\* let resolved_left = ...; let resolved_right = ...; of every binary arm
enforce_operands(m, scope, left, right, d) ==
    LET resolved_left == enforce_expression(m, scope, left, d + 1)
    IN  IF ~resolved_left.ok THEN [r |-> resolved_left, left |-> NoValue, right |-> NoValue]
        ELSE LET resolved_right == enforce_expression(resolved_left.m, scope, right, d + 1)
             IN  [r |-> resolved_right, left |-> resolved_left.val,
                  right |-> resolved_right.val]

\* the operator builder of a binary arm, run on the resolved operands
enforce_operator(m, tag, left, right, d) ==
    CASE tag = "Add" -> enforce_add_expression(m, left, right, d)
      [] tag = "Sub" -> enforce_sub_expression(m, left, right, d)
      [] tag = "Mul" -> enforce_mul_expression(m, left, right, d)
      [] tag = "Div" -> enforce_div_expression(m, left, right, d)
      [] tag = "Pow" -> enforce_pow_expression(m, left, right, d)
      [] tag = "Or" -> enforce_or(m, left, right, d)
      [] tag = "And" -> enforce_and(m, left, right, d)
      [] tag = "Eq" -> enforce_eq_expression(m, left, right, d)

enforce_binary_expression(m, scope, e, d) ==
    LET o == enforce_operands(m, scope, e.left, e.right, d)
    IN  IF ~o.r.ok THEN o.r
        ELSE enforce_operator(o.r.m, e.tag, o.left, o.right, d)

\* a comparison that resolves its operands before it gives up
enforce_comparison_expression_operands(m, scope, e, d) ==
    LET o == enforce_operands(m, scope, e.left, e.right, d)
    IN  IF ~o.r.ok THEN o.r ELSE Fatal(o.r.m, "expression unimplemented")

\* Geq, Gt, Leq, Lt: unimplemented!
enforce_comparison_expression(m, scope, e, d) == Fatal(m, "expression unimplemented")

enforce_not_expression(m, scope, e, d) ==
    LET r == enforce_expression(m, scope, e.expression, d + 1)
    IN  IF ~r.ok THEN r ELSE enforce_not(r.m, r.val, d)

\* a multiplexer: both branches evaluated, then one selected
enforce_if_else_expression_both(m, scope, e, d) ==
    LET first == enforce_expression(m, scope, e.first, d + 1)
    IN  IF ~first.ok THEN first
        ELSE IF first.val.kind # "Boolean"
        THEN Fatal(first.m, "if else conditional must resolve to boolean")
        ELSE LET second == enforce_expression(first.m, scope, e.second, d + 1)
             IN  IF ~second.ok THEN second
                 ELSE LET third == enforce_expression(second.m, scope, e.third, d + 1)
                      IN  IF ~third.ok THEN third
                          ELSE IF first.val = Boolean_Constant(TRUE)
                          THEN Ok(third.m, second.val)
                          ELSE third

enforce_if_else_expression(m, scope, e, d) ==
    LET first == enforce_expression(m, scope, e.first, d + 1)
    IN  IF ~first.ok THEN first
        ELSE IF first.val.kind # "Boolean"
        THEN Fatal(first.m, "if else conditional must resolve to boolean")
        ELSE IF first.val = Boolean_Constant(TRUE)
        THEN enforce_expression(first.m, scope, e.second, d + 1)
        ELSE enforce_expression(first.m, scope, e.third, d + 1)

\* a spread whose contents are put in front of the elements gathered so far
extend_in_front(result, array) == array \o result

\* result.extend(array.clone())
extend(result, array) == result \o array

\* a spread that falls back on the global table and skips what is no array
enforce_spread_lenient(m, scope, spread) ==
    IF spread.tag = "Variable"
    THEN LET array_name == new_scope_from_variable(scope, spread.name)
             value == IF is_some(get(m, array_name)) THEN get(m, array_name)
                      ELSE get(m, spread.name)
         IN  IF is_some(value) /\ unwrap(value).kind = "Array" THEN Ok(m, unwrap(value))
             ELSE Ok(m, ResolvedValue_Array(<<>>))
    ELSE Fatal(m, "spreads only implemented for arrays")

\* the Spread arm of the closure: the array the spread variable names in scope
enforce_spread(m, scope, spread) ==
    IF spread.tag = "Variable"
    THEN LET array_name == new_scope_from_variable(scope, spread.name)
             value == get(m, array_name)
         IN  IF ~is_some(value)
             THEN Fatal(m, "cannot copy elements from array that does not exist")
             ELSE IF unwrap(value).kind = "Array" THEN Ok(m, unwrap(value))
             ELSE Fatal(m, "spreads only implemented for arrays")
    ELSE Fatal(m, "spreads only implemented for arrays")

\* the for_each closure of enforce_array_expression, from element i on
enforce_array_elements(m, scope, array, i, result, d) ==
    IF i > Len(array) THEN Ok(m, ResolvedValue_Array(result))
    ELSE LET element == array[i]
         IN  IF element.spread
             THEN LET value == enforce_spread(m, scope, element.expression)
                  IN  IF ~value.ok THEN value
                      ELSE enforce_array_elements(m, scope, array, i + 1,
                                                  extend(result, value.val.elems), d)
             ELSE LET r == enforce_expression(m, scope, element.expression, d + 1)
                  IN  IF ~r.ok THEN r
                      ELSE enforce_array_elements(r.m, scope, array, i + 1,
                                                  Append(result, r.val), d)

enforce_array_expression(m, scope, array, d) ==
    enforce_array_elements(m, scope, array, 1, <<>>, d)

\* an index that reads an integer without a concrete value as offset 0
enforce_index_defaulting(m, scope, index, d) ==
    LET r == enforce_expression(m, scope, index, d + 1)
    IN  IF ~r.ok THEN r
        ELSE IF r.val.kind = "U32" THEN Ok(r.m, unwrap_or_default(r.val.value, 0))
        ELSE Fatal(r.m, "From index must resolve to an integer")

\* the result value is the usize offset
enforce_index(m, scope, index, d) ==
    LET r == enforce_expression(m, scope, index, d + 1)
    IN  IF ~r.ok THEN r
        ELSE IF r.val.kind = "U32"
        THEN IF is_some(r.val.value) THEN Ok(r.m, unwrap(r.val.value))
             ELSE Fatal(r.m, "called Option::unwrap() on a None value")
        ELSE Fatal(r.m, "From index must resolve to an integer")

\* a range read with its upper bound inclusive
slice_range_inclusive(m, array, from_resolved, to_resolved) ==
    IF from_resolved > to_resolved THEN Fatal(m, "slice index starts after its end")
    ELSE IF to_resolved > Len(array) THEN Fatal(m, "range end index out of range")
    ELSE Ok(m, ResolvedValue_Array(
                 SubSeq(array, from_resolved + 1,
                        IF to_resolved < Len(array) THEN to_resolved + 1 ELSE to_resolved)))

\* array[from_resolved..to_resolved].to_owned(), offsets counted from 0
slice_range(m, array, from_resolved, to_resolved) ==
    IF from_resolved > to_resolved THEN Fatal(m, "slice index starts after its end")
    ELSE IF to_resolved > Len(array) THEN Fatal(m, "range end index out of range")
    ELSE Ok(m, ResolvedValue_Array(SubSeq(array, from_resolved + 1, to_resolved)))

\* an index that wraps around the end of the array
slice_index_wrapping(m, array, index_resolved) ==
    IF Len(array) = 0 THEN Fatal(m, "index out of bounds")
    ELSE Ok(m, array[(index_resolved % Len(array)) + 1])

\* array[index_resolved].to_owned(), offset counted from 0
slice_index(m, array, index_resolved) ==
    IF index_resolved >= Len(array) THEN Fatal(m, "index out of bounds")
    ELSE Ok(m, array[index_resolved + 1])

enforce_array_access_expression(m, scope, array, index, d) ==
    LET r == enforce_expression(m, scope, array, d + 1)
    IN  IF ~r.ok THEN r
        ELSE IF r.val.kind = "Array"
        THEN IF index.range
             THEN LET from_resolved ==
                          IF is_some(index.from) THEN to_usize(unwrap(index.from)) ELSE 0
                      to_resolved ==
                          IF is_some(index.to) THEN to_usize(unwrap(index.to))
                          ELSE Len(r.val.elems)
                  IN  slice_range(r.m, r.val.elems, from_resolved, to_resolved)
             ELSE LET index_resolved == enforce_index(r.m, scope, index.expression, d)
                  IN  IF ~index_resolved.ok THEN index_resolved
                      ELSE slice_index(index_resolved.m, r.val.elems, index_resolved.val)
        ELSE Fatal(r.m, "Cannot access element of untyped array")

\* fields.iter().zip(members).for_each(...), from pair i on: zip ends with the
\* shorter of the two lists
enforce_struct_members(m, scope, fields, members, i, d) ==
    IF i > Len(fields) \/ i > Len(members) THEN Ok(m, NoValue)
    ELSE IF fields[i].variable # members[i].variable
    THEN Fatal(m, "struct field variables do not match")
    ELSE LET r == enforce_expression(m, scope, members[i].expression, d + 1)
         IN  IF ~r.ok THEN r
             ELSE enforce_struct_members(r.m, scope, fields, members, i + 1, d)

\* a struct literal that keeps its member expressions without resolving them
enforce_struct_expression_unevaluated(m, scope, variable, members, d) ==
    LET resolved_value == get_mut_variable(m, variable)
    IN  IF ~is_some(resolved_value)
        THEN Fatal(m, "Struct must be declared before it is used in an inline expression")
        ELSE IF unwrap(resolved_value).kind # "StructDefinition"
        THEN Fatal(m, "Inline struct type is not defined as a struct")
        ELSE IF \E i \in 1..Len(members) :
                   /\ i <= Len(unwrap(resolved_value).fields)
                   /\ unwrap(resolved_value).fields[i].variable # members[i].variable
        THEN Fatal(m, "struct field variables do not match")
        ELSE Ok(m, ResolvedValue_StructExpression(variable, members))

\* a struct literal that resolves its members before it looks its type up
enforce_struct_expression_members_first(m, scope, variable, members, d) ==
    LET resolved_value == get_mut_variable(m, variable)
        own == [i \in 1..Len(members) |-> StructField(members[i].variable, "U32")]
        r == enforce_struct_members(m, scope, own, members, 1, d)
    IN  IF ~r.ok THEN r
        ELSE IF ~is_some(resolved_value)
        THEN Fatal(r.m, "Struct must be declared before it is used in an inline expression")
        ELSE IF unwrap(resolved_value).kind = "StructDefinition"
        THEN Ok(r.m, ResolvedValue_StructExpression(variable, members))
        ELSE Fatal(r.m, "Inline struct type is not defined as a struct")

enforce_struct_expression(m, scope, variable, members, d) ==
    LET resolved_value == get_mut_variable(m, variable)
    IN  IF is_some(resolved_value)
        THEN IF unwrap(resolved_value).kind = "StructDefinition"
             THEN LET r == enforce_struct_members(m, scope, unwrap(resolved_value).fields,
                                                  members, 1, d)
                  IN  IF ~r.ok THEN r
                      ELSE Ok(r.m, ResolvedValue_StructExpression(variable, members))
             ELSE Fatal(m, "Inline struct type is not defined as a struct")
        ELSE Fatal(m, "Struct must be declared before it is used in an inline expression")

\* a search that returns the last member of the requested name
find_member_last(members, struct_member) ==
    LET matching == {i \in 1..Len(members) : members[i].variable = struct_member}
    IN  IF matching = {} THEN None
        ELSE Some(members[CHOOSE i \in matching : \A j \in matching : j <= i])

\* members.into_iter().find(|member| member.variable == struct_member)
find_member(members, struct_member) ==
    LET matching == {i \in 1..Len(members) : members[i].variable = struct_member}
    IN  IF matching = {} THEN None
        ELSE Some(members[CHOOSE i \in matching : \A j \in matching : i <= j])

enforce_struct_access_expression(m, scope, struct_variable, struct_member, d) ==
    LET r == enforce_expression(m, scope, struct_variable, d + 1)
    IN  IF ~r.ok THEN r
        ELSE IF r.val.kind = "StructExpression"
        THEN LET matched_member == find_member(r.val.members, struct_member)
             IN  IF is_some(matched_member)
                 THEN enforce_expression(r.m, scope, unwrap(matched_member).expression, d + 1)
                 ELSE Fatal(r.m, "Cannot access struct member")
        ELSE Fatal(r.m, "Cannot access element of untyped struct")

\* the arguments of a call resolved in positional order, from argument i on; the
\* caller's scope is not handed to the activation, so they resolve in its own
enforce_function_arguments(m, function, arguments, i, values, d) ==
    IF i > Len(arguments) THEN Ok(m, ResolvedValue_Array(values))
    ELSE LET r == enforce_expression(m, function.function_name, arguments[i], d + 1)
         IN  IF ~r.ok THEN r
             ELSE enforce_function_arguments(r.m, function, arguments, i + 1,
                                             Append(values, r.val), d)

\* positional parameter binding: parameter i names the value of argument i
store_parameters(m, function, values) ==
    [m EXCEPT !.store =
        [n \in DOMAIN @ \cup {new_scope_from_variable(function.function_name,
                                                      function.parameters[i].variable) :
                                    i \in 1..Len(values)} |->
            IF \E i \in 1..Len(values) :
                  n = new_scope_from_variable(function.function_name,
                                              function.parameters[i].variable)
            THEN values[CHOOSE i \in 1..Len(values) :
                            n = new_scope_from_variable(function.function_name,
                                                        function.parameters[i].variable)]
            ELSE @[n]]]

\* Statement::Return: each returned expression in declaration order
enforce_return_statement(m, scope, returns, i, values, d) ==
    IF i > Len(returns) THEN Ok(m, ResolvedValue_Return(values))
    ELSE LET r == enforce_expression(m, scope, returns[i], d + 1)
         IN  IF ~r.ok THEN r
             ELSE enforce_return_statement(r.m, scope, returns, i + 1,
                                           Append(values, r.val), d)

\* one activation: the arguments are evaluated, bound to the parameters by
\* position in the activation's scope, and the body's Return collects the result
enforce_function(m, function, arguments, d) ==
    LET m1 == Activate(m, function, arguments, d)
        a == enforce_function_arguments(m1, function, arguments, 1, <<>>, d)
    IN  IF ~a.ok THEN a
        ELSE IF Len(function.parameters) # Len(arguments)
        THEN Fatal(a.m, "function expected a different number of arguments")
        ELSE enforce_return_statement(store_parameters(a.m, function, a.val.elems),
                                      function.function_name, function.returns, 1, <<>>, d)

\* a call that resolves its arguments before it looks at what the base is
enforce_function_access_expression_arguments_first(m, scope, function, arguments, d) ==
    LET r == enforce_expression(m, scope, function, d + 1)
    IN  IF ~r.ok THEN r
        ELSE LET a == enforce_function_arguments(r.m, Function(scope, <<>>, <<>>),
                                                 arguments, 1, <<>>, d)
             IN  IF ~a.ok THEN a
                 ELSE IF r.val.kind = "Function"
                 THEN enforce_function(a.m, r.val.function, arguments, d)
                 ELSE Fatal(a.m, "Cannot call unknown function")

enforce_function_access_expression(m, scope, function, arguments, d) ==
    LET r == enforce_expression(m, scope, function, d + 1)
    IN  IF ~r.ok THEN r
        ELSE IF r.val.kind = "Function"
        THEN enforce_function(r.m, r.val.function, arguments, d)
        ELSE Fatal(r.m, "Cannot call unknown function")

enforce_expression(m, scope, e, d) ==
    LET m1 == Enter(m, e, d)
        r == CASE e.tag = "Variable" -> enforce_variable(m1, scope, e.name)
               [] e.tag = "Integer" -> Ok(m1, get_integer_constant(e.n))
               [] e.tag = "FieldElement" -> Ok(m1, ResolvedValue_FieldElement(e.fe))
               [] e.tag = "Boolean" -> Ok(m1, get_boolean_constant(e.b))
               [] e.tag \in NumericTags \cup BooleanTags ->
                      enforce_binary_expression(m1, scope, e, d)
               [] e.tag = "Not" -> enforce_not_expression(m1, scope, e, d)
               [] e.tag \in ComparisonTags -> enforce_comparison_expression(m1, scope, e, d)
               [] e.tag = "IfElse" -> enforce_if_else_expression(m1, scope, e, d)
               [] e.tag = "Array" -> enforce_array_expression(m1, scope, e.elements, d)
               [] e.tag = "ArrayAccess" ->
                      enforce_array_access_expression(m1, scope, e.array, e.index, d)
               [] e.tag = "Struct" ->
                      enforce_struct_expression(m1, scope, e.variable, e.members, d)
               [] e.tag = "StructMemberAccess" ->
                      enforce_struct_access_expression(m1, scope, e.struct_variable,
                                                       e.struct_member, d)
               [] e.tag = "FunctionCall" ->
                      enforce_function_access_expression(m1, scope, e.function,
                                                         e.arguments, d)
               [] OTHER -> Fatal(m1, "not implemented")
    IN  IF r.ok THEN [r EXCEPT !.m = Exit(r.m, e, d, r.val)] ELSE r

----------------------------------------------------------------------------
(* Parameter binder *)

Parameter(variable, ty, private) == [variable |-> variable, ty |-> ty, private |-> private]

\* a parameter as parsed: visibility is None or Some of "Private", "Public"
ast_Parameter(variable, ty, declared) ==
    [variable |-> variable, ty |-> ty, visibility |-> declared]

\* a lowering that reads a parameter without visibility as public
Parameter_from_default_public(parameter) ==
    IF is_some(parameter.visibility)
    THEN Parameter(parameter.variable, parameter.ty, unwrap(parameter.visibility) = "Private")
    ELSE Parameter(parameter.variable, parameter.ty, FALSE)

\* impl From<ast::Parameter> for types::Parameter
Parameter_from(parameter) ==
    IF is_some(parameter.visibility)
    THEN Parameter(parameter.variable, parameter.ty, unwrap(parameter.visibility) = "Private")
    ELSE Parameter(parameter.variable, parameter.ty, TRUE)

DigitChars == <<"0", "1", "2", "3", "4", "5", "6", "7", "8", "9">>
Digits == {DigitChars[i] : i \in 1..10}
digit_value(c) == (CHOOSE i \in 1..10 : DigitChars[i] = c) - 1

RECURSIVE decimal(_)
decimal(text) ==
    IF Len(text) = 0 THEN 0
    ELSE 10 * decimal(SubSeq(text, 1, Len(text) - 1)) + digit_value(text[Len(text)])

is_decimal(text) == Len(text) > 0 /\ \A i \in 1..Len(text) : text[i] \in Digits

\* str::parse::<F>: the decimal text reduced into the field, None when it is no number
parse_field(text) == IF is_decimal(text) THEN Some(decimal(text) % FieldModulus) ELSE None
\* the text without its leading zeros
RECURSIVE strip_zeros(_)
strip_zeros(text) ==
    IF Len(text) > 1 /\ text[1] = "0" THEN strip_zeros(Tail(text)) ELSE text
\* of two decimal texts of one length, the first is at most the second
RECURSIVE digits_leq(_, _)
digits_leq(a, b) ==
    IF Len(a) = 0 THEN TRUE
    ELSE IF a[1] = b[1] THEN digits_leq(Tail(a), Tail(b))
    ELSE digit_value(a[1]) < digit_value(b[1])
\* u32::MAX = 2^32 - 1 in decimal
U32MaxText == <<"4", "2", "9", "4", "9", "6", "7", "2", "9", "5">>
fits_u32(text) ==
    LET digits == strip_zeros(text)
    IN  Len(digits) < 10 \/ (Len(digits) = 10 /\ digits_leq(digits, U32MaxText))
\* str::parse::<u32>: None when the text is no number or exceeds u32::MAX
parse_u32(text) == IF is_decimal(text) /\ fits_u32(text) THEN Some(decimal(text)) ELSE None
\* str::parse::<bool>
parse_bool(text) ==
    IF text = <<"t", "r", "u", "e">> THEN Some(TRUE)
    ELSE IF text = <<"f", "a", "l", "s", "e">> THEN Some(FALSE) ELSE None

\* std::env::args().nth(index): args[1] is the program's own name
args_nth(args, index) == IF index + 1 <= Len(args) THEN Some(args[index + 1]) ELSE None

\* a binder that allocates the input both as witness and as public input and
\* stores it under the bare parameter name as well
field_element_from_parameter_twice(m, scope, index, parameter, args) ==
    LET text == args_nth(args, index)
    IN  IF ~is_some(text) THEN Fatal(m, "expected command line argument at index")
        ELSE LET argument == unwrap_or_default(parse_field(unwrap(text)), 0)
                 name == parameter.variable
                 m1 == cs_alloc_input(cs_alloc(m, name), name)
                 parameter_variable == new_variable_from_variable(scope, parameter.variable)
                 m2 == store_variable(m1, name, ResolvedValue_FieldElement(argument))
             IN  Ok(store_variable(m2, parameter_variable, ResolvedValue_FieldElement(argument)),
                    parameter_variable)

field_element_from_parameter(m, scope, index, parameter, args) ==
    LET text == args_nth(args, index)
    IN  IF ~is_some(text) THEN Fatal(m, "expected command line argument at index")
        ELSE LET argument == unwrap_or_default(parse_field(unwrap(text)), 0)
                 name == parameter.variable
                 m1 == IF parameter.private THEN cs_alloc(m, name)
                       ELSE cs_alloc_input(m, name)
                 parameter_variable == new_variable_from_variable(scope, parameter.variable)
             IN  Ok(store_variable(m1, parameter_variable, ResolvedValue_FieldElement(argument)),
                    parameter_variable)

\* a binder of field arrays that allocates the parameter and binds it to an
\* array of the one element read
field_element_array_from_parameter_binding(m, scope, index, parameter, args) ==
    LET text == args_nth(args, index)
        argument == IF is_some(text) THEN unwrap_or_default(parse_field(unwrap(text)), 0) ELSE 0
        parameter_variable == new_variable_from_variable(scope, parameter.variable)
    IN  Ok(store_variable(cs_alloc(m, parameter.variable), parameter_variable,
                          ResolvedValue_Array(<<ResolvedValue_FieldElement(argument)>>)),
           parameter_variable)

field_element_array_from_parameter(m, scope, index, parameter, args) ==
    Fatal(m, "Cannot enforce field element array as parameter")

\* the binders of the other parameter types: read the input at the positional
\* index, allocate it per the declared visibility, insert it into the scope
u32_from_parameter(m, scope, index, parameter, args) ==
    LET text == args_nth(args, index)
    IN  IF ~is_some(text) THEN Fatal(m, "expected command line argument at index")
        ELSE IF ~is_some(parse_u32(unwrap(text)))
        THEN Fatal(m, "expected main function parameter at index")
        ELSE LET name == parameter.variable
                 m1 == IF parameter.private THEN cs_alloc(m, name)
                       ELSE cs_alloc_input(m, name)
                 parameter_variable == new_variable_from_variable(scope, parameter.variable)
             IN  Ok(store_variable(m1, parameter_variable,
                                   ResolvedValue_U32(parse_u32(unwrap(text)), TRUE)),
                    parameter_variable)

bool_from_parameter(m, scope, index, parameter, args) ==
    LET text == args_nth(args, index)
    IN  IF ~is_some(text) THEN Fatal(m, "expected command line argument at index")
        ELSE IF ~is_some(parse_bool(unwrap(text)))
        THEN Fatal(m, "expected main function parameter at index")
        ELSE LET name == parameter.variable
                 m1 == IF parameter.private THEN cs_alloc(m, name)
                       ELSE cs_alloc_input(m, name)
                 parameter_variable == new_variable_from_variable(scope, parameter.variable)
             IN  Ok(store_variable(m1, parameter_variable,
                                   ResolvedValue_Boolean(FALSE, unwrap(parse_bool(unwrap(text))))),
                    parameter_variable)

\* Statement::Definition with a bare variable as assignee
enforce_definition_statement(m, scope, variable, expression) ==
    LET r == enforce_expression(m, scope, expression, 0)
    IN  IF ~r.ok THEN r
        ELSE Ok(store_variable(r.m, new_scope_from_variable(scope, variable), r.val), r.val)

----------------------------------------------------------------------------
(* Lowering of the untyped tree into typed nodes (types_from.rs) *)

\* untyped nodes: a literal carries the text of its number or value
\* ast::Value: rule is U32, Field or Boolean
ast_Value(rule, text) == [rule |-> rule, value |-> text]
ast_Variable(name) == [rule |-> "Variable", name |-> name]
ast_NotExpression(expression) == [rule |-> "Not", expression |-> expression]
ast_BinaryExpression(operation, left, right) ==
    [rule |-> "Binary", operation |-> operation, left |-> left, right |-> right]

\* ast::BinaryOperator
BinaryOperators ==
    {"Or", "And", "Eq", "Neq", "Geq", "Gt", "Leq", "Lt", "Add", "Sub", "Mul", "Div", "Pow"}

\* the outcome of one conversion: the typed node or the panic, and the untyped
\* nodes a conversion was called on, in call order
NoLowering == [ok |-> TRUE, val |-> NoExpr, err |-> "none", calls |-> <<>>]
Lowered(node, calls) == [ok |-> TRUE, val |-> node, err |-> "none", calls |-> calls]
Aborted(msg, calls) == [ok |-> FALSE, val |-> NoExpr, err |-> msg, calls |-> calls]

\* From<ast::U32> for types::Expression
Expression_from_U32(field) ==
    LET number == parse_u32(field.value)
    IN  IF is_some(number) THEN Lowered(Expression_Integer(unwrap(number)), <<field>>)
        ELSE Aborted("unable to parse u32", <<field>>)

\* From<ast::Field> for types::Expression
Expression_from_Field(field) ==
    Lowered(Expression_FieldElement(unwrap_or_default(parse_field(field.value), 0)), <<field>>)

\* From<ast::Boolean> for types::Expression
Expression_from_Boolean(boolean) ==
    LET b == parse_bool(boolean.value)
    IN  IF is_some(b) THEN Lowered(Expression_Boolean(unwrap(b)), <<boolean>>)
        ELSE Aborted("unable to parse boolean", <<boolean>>)

\* From<ast::Value> for types::Expression
Expression_from_Value(value) ==
    CASE value.rule = "U32" -> Expression_from_U32(value)
      [] value.rule = "Field" -> Expression_from_Field(value)
      [] value.rule = "Boolean" -> Expression_from_Boolean(value)

\* From<ast::Variable> for types::Expression
Expression_from_Variable(variable) ==
    Lowered(Expression_Variable(variable.name), <<variable>>)

RECURSIVE Expression_from(_, _)
RECURSIVE Expression_from_BinaryExpression(_, _)

\* From<ast::NotExpression> for types::Expression
Expression_from_NotExpression(expression, d) ==
    LET inner == Expression_from(expression.expression, d + 1)
    IN  IF ~inner.ok THEN Aborted(inner.err, <<expression>> \o inner.calls)
        ELSE Lowered(Expression_Not(inner.val), <<expression>> \o inner.calls)

\* From<ast::BinaryExpression> for types::Expression: every arm but Neq converts
\* the two operands; the Neq arm converts the expression it was given. A call
\* nested deeper than MaxDepth finds the stack exhausted.
Expression_from_BinaryExpression(expression, d) ==
    IF d > MaxDepth THEN Aborted("stack overflow", <<>>)
    ELSE IF expression.operation = "Neq"
    THEN LET inner == Expression_from_BinaryExpression(expression, d + 1)
         IN  IF ~inner.ok THEN Aborted(inner.err, <<expression>> \o inner.calls)
             ELSE Lowered(Expression_Not(inner.val), <<expression>> \o inner.calls)
    ELSE LET l == Expression_from(expression.left, d + 1)
         IN  IF ~l.ok THEN Aborted(l.err, <<expression>> \o l.calls)
             ELSE LET r == Expression_from(expression.right, d + 1)
                  IN  IF ~r.ok THEN Aborted(r.err, <<expression>> \o l.calls \o r.calls)
                      ELSE Lowered(Expression_Binary(expression.operation, l.val, r.val),
                                   <<expression>> \o l.calls \o r.calls)

\* From<ast::Expression> for types::Expression
Expression_from(expression, d) ==
    IF d > MaxDepth THEN Aborted("stack overflow", <<>>)
    ELSE CASE expression.rule \in {"U32", "Field", "Boolean"} -> Expression_from_Value(expression)
           [] expression.rule = "Variable" -> Expression_from_Variable(expression)
           [] expression.rule = "Not" -> Expression_from_NotExpression(expression, d)
           [] expression.rule = "Binary" -> Expression_from_BinaryExpression(expression, d)

----------------------------------------------------------------------------
(* The conditional statement (ast/src/statements/conditional_statement.rs) *)

\* grammar nodes: a condition, a block and the optional continuation
GrammarConditionalStatement(condition, block, next) ==
    [rule |-> "conditional", condition |-> condition, block |-> block, next |-> next]
GrammarNested(statement) == [rule |-> "nested", statement |-> statement]
GrammarEnd(block) == [rule |-> "end", block |-> block]
GrammarBlock(statements) == [rule |-> "block", statements |-> statements]
GrammarBoolean(text) == [rule |-> "boolean", value |-> text]

ConditionalStatement(condition, block, next) ==
    [condition |-> condition, block |-> block, next |-> next]
ConditionalNestedOrEndStatement_Nested(statement) == [nested |-> TRUE, statement |-> statement]
ConditionalNestedOrEndStatement_End(block) == [nested |-> FALSE, block |-> block]
Block(statements) == [statements |-> statements]

\* Expression::from and Block::from of the statement crate
GrammarExpression_from(condition) == Expression_Boolean(unwrap(parse_bool(condition.value)))
Block_from(block) ==
    Block([i \in 1..Len(block.statements) |-> [statement |-> block.statements[i]]])

\* a conversion that keeps the condition and the block and drops the continuation
ConditionalStatement_from_first_link(statement) ==
    ConditionalStatement(GrammarExpression_from(statement.condition),
                         Block_from(statement.block), None)

RECURSIVE ConditionalStatement_from(_)
RECURSIVE ConditionalNestedOrEndStatement_from(_)

ConditionalStatement_from(statement) ==
    ConditionalStatement(GrammarExpression_from(statement.condition),
                         Block_from(statement.block),
                         IF is_some(statement.next)
                         THEN Some(ConditionalNestedOrEndStatement_from(unwrap(statement.next)))
                         ELSE None)

ConditionalNestedOrEndStatement_from(n_or_e) ==
    IF n_or_e.rule = "nested"
    THEN ConditionalNestedOrEndStatement_Nested(ConditionalStatement_from(n_or_e.statement))
    ELSE ConditionalNestedOrEndStatement_End(Block_from(n_or_e.block))

\* execution of a block: its statements run in order
enforce_block(m, block, d) ==
    Log(m, Event(m, "block", d, [tag |-> "Block", statements |-> block.statements], "", NoValue))

\* execution of a conditional: the condition is evaluated; when it holds the
\* block runs, otherwise the continuation, if there is one
RECURSIVE enforce_conditional_statement(_, _, _, _)

\* the conditional from the point where its condition has resolved to r
enforce_conditional_branch(r, scope, statement, d) ==
    IF ~r.ok THEN r
    ELSE IF r.val.kind # "Boolean"
    THEN Fatal(r.m, "If, else conditional must resolve to a boolean")
    ELSE LET m1 == Log(r.m, Event(r.m, "condition", d, statement.condition, "", r.val))
         IN  IF r.val.b THEN Ok(enforce_block(m1, statement.block, d), NoValue)
             ELSE IF ~is_some(statement.next) THEN Ok(m1, NoValue)
             ELSE IF unwrap(statement.next).nested
             THEN enforce_conditional_statement(m1, scope, unwrap(statement.next).statement,
                                                d + 1)
             ELSE Ok(enforce_block(m1, unwrap(statement.next).block, d + 1), NoValue)

enforce_conditional_statement(m, scope, statement, d) ==
    enforce_conditional_branch(enforce_expression(m, scope, statement.condition, d + 1),
                               scope, statement, d)

----------------------------------------------------------------------------
(* The program under compilation and the expressions it may enforce *)

Scope == "main"

Var(name) == Expression_Variable(name)
I(n) == Expression_Integer(n)
Plain(e) == SpreadOrExpression_Expression(e)

\* function foo(x: u32, y: u32) { return x, y + 1 }
Foo ==
    Function("foo", <<Parameter("x", "U32", TRUE), Parameter("y", "U32", TRUE)>>,
             <<Var("x"), Expression_Binary("Add", Var("y"), I(1))>>)
\* function bar() { return 1 }
Bar == Function("bar", <<>>, <<I(1)>>)

\* the global table after the program's structs and functions are registered
Globals ==
    ("Point" :> ResolvedValue_StructDefinition(<<StructField("x", "U32"), StructField("y", "U32")>>))
    @@ ("foo" :> ResolvedValue_Function(Foo))
    @@ ("bar" :> ResolvedValue_Function(Bar))

\* the visibility a parameter may be declared with
Visibilities == {None, Some("Private"), Some("Public")}

\* function main(a: u32, b: bool, f: field), f's visibility as declared
MainParameters(declared) ==
    <<Parameter_from(ast_Parameter("a", "U32", None)),
      Parameter_from(ast_Parameter("b", "Boolean", None)),
      Parameter_from(ast_Parameter("f", parameter_type, declared))>>

\* let arr = [a, 2, 3]; let k = a; let s = Point { x: 1, y: k }; let k = k + 1;
\* let bar = 2; let t = Point { x: foo(1, 2), y: foo(2, 1) };
MainBody ==
    <<[variable |-> "arr", expression |-> Expression_Array(<<Plain(Var("a")), Plain(I(2)), Plain(I(3))>>)],
      [variable |-> "k", expression |-> Var("a")],
      [variable |-> "s",
       expression |-> Expression_Struct("Point", <<StructMember("x", I(1)), StructMember("y", Var("k"))>>)],
      [variable |-> "k", expression |-> Expression_Binary("Add", Var("k"), I(1))],
      [variable |-> "bar", expression |-> I(2)],
      [variable |-> "t",
       expression |-> Expression_Struct("Point",
           <<StructMember("x", Expression_FunctionCall(Var("foo"), <<I(1), I(2)>>)),
             StructMember("y", Expression_FunctionCall(Var("foo"), <<I(2), I(1)>>))>>)]>>

\* the array literal [1, 2, ..., n]
Iota(n) == Expression_Array([i \in 1..n |-> Plain(I(i))])

SeqsUpTo(S, n) == UNION {[1..k -> S] : k \in 0..n}

Atoms ==
    {Var("a"), Var("b"), Var("f"), Var("arr"), Var("s"), Var("foo"), Var("bar"), Var("zz"),
     I(1), Expression_FieldElement(1), Expression_Boolean(TRUE)}

\* compound operands: some emit constraints, some are fatal
Inner ==
    {Expression_Binary(tag, l, r) :
        tag \in {"Add", "Eq"}, l \in {Var("a"), Var("f")}, r \in {I(1)}}

BinaryTags == NumericTags \cup BooleanTags \cup ComparisonTags

BinaryExprs ==
    {Expression_Binary(tag, l, r) : tag \in BinaryTags, l \in Atoms, r \in Atoms}
    \cup {Expression_Binary(tag, l, r) : tag \in BinaryTags, l \in Inner, r \in Inner}

NotExprs == {Expression_Not(e) : e \in Atoms}

Conditions ==
    {Expression_Boolean(TRUE), Expression_Boolean(FALSE), Var("b"), Var("a"), Var("zz"),
     Expression_Binary("Eq", Var("b"), Expression_Boolean(TRUE))}
Branches ==
    {I(1), Var("f"), Var("zz"), Expression_Binary("Add", Var("a"), I(1)),
     Expression_Binary("Geq", Var("a"), I(1))}
IfElseExprs ==
    {Expression_IfElse(c, t, e) : c \in Conditions, t \in Branches, e \in Branches}

Elements ==
    {Plain(Var("a")), Plain(Var("zz")), Plain(Expression_Binary("Add", Var("a"), I(1))),
     SpreadOrExpression_Spread(Var("arr")), SpreadOrExpression_Spread(Var("s")),
     SpreadOrExpression_Spread(Var("zz")), SpreadOrExpression_Spread(I(1)),
     SpreadOrExpression_Spread(Var("foo")), SpreadOrExpression_Spread(Iota(1))}
ArrayExprs ==
    {Iota(n) : n \in 0..MaxLen} \cup {Expression_Array(el) : el \in SeqsUpTo(Elements, 3)}

Bounds == {None} \cup {Some(n) : n \in 0..(MaxLen + 1)}
Indexes ==
    {RangeOrExpression_Range(from, to) : from \in Bounds, to \in Bounds}
    \cup {RangeOrExpression_Expression(I(n)) : n \in 0..(MaxLen + 1)}
    \cup {RangeOrExpression_Expression(e) :
            e \in {Var("a"), Var("b"), Var("zz"), Expression_Binary("Add", Var("a"), I(1))}}
ArrayAccessExprs ==
    {Expression_ArrayAccess(base, index) :
        base \in {Iota(n) : n \in 0..MaxLen} \cup {Var("arr"), Var("a"), Var("zz")},
        index \in Indexes}

Members ==
    {StructMember("x", I(1)), StructMember("x", Expression_Binary("Add", Var("a"), I(1))),
     StructMember("y", I(1)), StructMember("y", Var("zz")), StructMember("y", Var("b")),
     StructMember("z", I(1))}
StructExprs ==
    {Expression_Struct("Point", members) : members \in SeqsUpTo(Members, 3)}
    \cup {Expression_Struct(name, members) :
            name \in {"foo", "bar", "a", "Missing"}, members \in SeqsUpTo(Members, 1)}

\* member accesses: on the defined instance s, on a literal, on a non-struct
StructLiterals ==
    {Expression_Struct("Point", <<StructMember("x", x), StructMember("y", I(1))>>) :
        x \in {I(1), Var("a"), Expression_Binary("Add", Var("a"), I(1))}}
    \cup {Expression_Struct("Point", <<StructMember("x", I(1)), StructMember("y", I(1)),
                                       StructMember("x", Var("a"))>>)}
StructMemberAccessExprs ==
    {Expression_StructMemberAccess(base, member) :
        base \in StructLiterals
                 \cup {Var("s"), Var("t"), Var("a"), Var("arr"), Var("Point"), Var("zz")},
        member \in {"x", "y", "z"}}

Arguments ==
    {I(1), I(2), Expression_Binary("Add", I(1), I(1)), Var("a"),
     Expression_Binary("Geq", I(1), I(1))}
FunctionCallExprs ==
    {Expression_FunctionCall(function, arguments) :
        function \in {Var("foo"), Var("bar"), Var("a"), Var("Point"), Var("zz"),
                      Expression_Binary("Add", Var("a"), I(1))},
        arguments \in SeqsUpTo(Arguments, 2)}

Expressions ==
    Atoms \cup BinaryExprs \cup NotExprs \cup IfElseExprs \cup ArrayExprs
    \cup ArrayAccessExprs \cup StructExprs \cup StructMemberAccessExprs
    \cup FunctionCallExprs

\* the command line: the program's name, then the inputs up to position index
ArgsWith(index, text) == [i \in 1..(index + 1) |-> IF i = index + 1 THEN text ELSE <<"-">>]
ArgsWithout(index) == [i \in 1..index |-> <<"-">>]

U32Args(index) ==
    {ArgsWith(index, <<DigitChars[n + 1]>>) : n \in 0..MaxInt}
    \cup {ArgsWith(index, <<"x">>), ArgsWithout(index)}
BoolArgs(index) ==
    {ArgsWith(index, <<"t", "r", "u", "e">>), ArgsWith(index, <<"f", "a", "l", "s", "e">>),
     ArgsWith(index, <<"1">>), ArgsWithout(index)}
FieldArgs(index) ==
    {ArgsWith(index, <<DigitChars[n + 1]>>) : n \in 0..FieldModulus}
    \cup {ArgsWith(index, <<"1", "0">>), ArgsWith(index, <<"x">>), ArgsWith(index, <<>>),
          ArgsWithout(index)}

----------------------------------------------------------------------------
(* The compile session *)

Outcome(r) == [ok |-> r.ok, val |-> r.val, err |-> r.err]
\* the values the member expressions of a defined struct literal resolved to
\* when the literal was evaluated, in member order
MemberValues(t) ==
    LET exits == SelectSeq(t, LAMBDA event : event.ev = "exit" /\ event.depth = 1)
    IN  [i \in 1..Len(exits) |-> exits[i].val]
Snapshot == [store |-> store, cs |-> cs]

Init ==
    /\ phase = "params"
    /\ pos = 1
    /\ store = Globals
    /\ cs = <<>>
    /\ trace = <<>>
    /\ expr = NoExpr
    /\ resolved = [ok |-> TRUE, val |-> NoValue, err |-> "none"]
    /\ before = [store |-> Globals, cs |-> <<>>]
    /\ built = <<>>
    /\ visibility \in Visibilities
    /\ parameter_type \in {"FieldElement", "FieldElementArray"}
    /\ input = <<>>
    /\ untyped = NoExpr
    /\ lowered = NoLowering

\* one parameter bound by binder r: on success the next position, else abort
Bound(r, last) ==
    /\ store' = r.m.store
    /\ cs' = r.m.cs
    /\ before' = Snapshot
    /\ resolved' = [ok |-> r.ok, val |-> NoValue, err |-> r.err]
    /\ phase' = IF ~r.ok THEN "aborted" ELSE IF last THEN "body" ELSE "params"
    /\ pos' = IF ~r.ok THEN pos ELSE IF last THEN 1 ELSE pos + 1
    /\ UNCHANGED <<trace, expr, built, visibility, parameter_type, untyped, lowered>>

U32FromParameter ==
    /\ phase = "params"
    /\ pos = 1
    /\ \E args \in U32Args(pos) :
          /\ Bound(u32_from_parameter(Machine(store, cs, <<>>), Scope, pos,
                                      MainParameters(visibility)[pos], args), FALSE)
          /\ input' = args

BoolFromParameter ==
    /\ phase = "params"
    /\ pos = 2
    /\ \E args \in BoolArgs(pos) :
          /\ Bound(bool_from_parameter(Machine(store, cs, <<>>), Scope, pos,
                                       MainParameters(visibility)[pos], args), FALSE)
          /\ input' = args

FieldElementFromParameter ==
    /\ phase = "params"
    /\ pos = 3
    /\ parameter_type = "FieldElement"
    /\ \E args \in FieldArgs(pos) :
          /\ Bound(field_element_from_parameter(Machine(store, cs, <<>>), Scope, pos,
                                                MainParameters(visibility)[pos], args), TRUE)
          /\ input' = args

FieldElementArrayFromParameter ==
    /\ phase = "params"
    /\ pos = 3
    /\ parameter_type = "FieldElementArray"
    /\ \E args \in FieldArgs(pos) :
          /\ Bound(field_element_array_from_parameter(Machine(store, cs, <<>>), Scope, pos,
                                                      MainParameters(visibility)[pos], args),
                   TRUE)
          /\ input' = args

Definition ==
    /\ phase = "body"
    /\ pos <= Len(MainBody)
    /\ LET r == enforce_definition_statement(Machine(store, cs, <<>>), Scope,
                                             MainBody[pos].variable, MainBody[pos].expression)
       IN  /\ store' = r.m.store
           /\ cs' = r.m.cs
           /\ before' = Snapshot
           /\ resolved' = Outcome(r)
           /\ phase' = IF r.ok THEN "body" ELSE "aborted"
           /\ pos' = IF r.ok THEN pos + 1 ELSE pos
           /\ built' = IF r.ok /\ r.val.kind = "StructExpression"
                        THEN MemberValues(r.m.trace) ELSE built
           /\ input' = <<>>
           /\ UNCHANGED <<trace, expr, visibility, parameter_type, untyped, lowered>>

\* one call of enforce_expression on e in the scope of main
Enforced(e) ==
    LET r == enforce_expression(Machine(store, cs, <<>>), Scope, e, 0)
    IN  /\ expr' = e
        /\ store' = r.m.store
        /\ cs' = r.m.cs
        /\ trace' = r.m.trace
        /\ before' = Snapshot
        /\ resolved' = Outcome(r)
        /\ phase' = "done"
        /\ pos' = pos
        /\ UNCHANGED <<built, visibility, parameter_type, input, untyped, lowered>>

EnforceExpression ==
    /\ phase = "body"
    /\ pos = Len(MainBody) + 1
    /\ \E e \in Expressions : Enforced(e)

Next ==
    \/ U32FromParameter
    \/ BoolFromParameter
    \/ FieldElementFromParameter
    \/ FieldElementArrayFromParameter
    \/ Definition
    \/ EnforceExpression

Spec == Init /\ [][Next]_vars

----------------------------------------------------------------------------
(* An array access entered with any value bound to the variable n: the     *)
(* resolved values are drawn from every variant of ResolvedValue, an       *)
(* integer gadget without a concrete value included.                       *)

IndexValues ==
    {ResolvedValue_U32(None, TRUE)}
    \cup {ResolvedValue_U32(Some(n), alloc) : n \in 0..MaxLen, alloc \in BOOLEAN}
    \cup {ResolvedValue_Boolean(const, b) : const \in BOOLEAN, b \in BOOLEAN}
    \cup {ResolvedValue_FieldElement(fe) : fe \in 0..(FieldModulus - 1)}
    \cup {ResolvedValue_Array(<<>>),
          ResolvedValue_Array(<<get_integer_constant(0), get_integer_constant(1)>>),
          ResolvedValue_StructExpression("Point", <<>>), ResolvedValue_Function(Bar)}

IndexAccessExprs ==
    {Expression_ArrayAccess(base, RangeOrExpression_Expression(index)) :
        base \in {Iota(n) : n \in 0..MaxLen} \cup {Var("n"), Var("zz")},
        index \in {Var("n"), Var("zz"), I(0), Expression_Binary("Add", Var("n"), I(1)),
                   Expression_Binary("Mul", Var("n"), Var("n"))}}

IndexInit ==
    /\ phase = "index"
    /\ pos = 1
    /\ \E value \in IndexValues :
          /\ store = Globals @@ (new_scope_from_variable(Scope, "n") :> value)
          /\ before = [store |-> store, cs |-> <<>>]
    /\ cs = <<>>
    /\ trace = <<>>
    /\ expr = NoExpr
    /\ resolved = [ok |-> TRUE, val |-> NoValue, err |-> "none"]
    /\ built = <<>>
    /\ visibility = None
    /\ parameter_type = "FieldElement"
    /\ input = <<>>
    /\ untyped = NoExpr
    /\ lowered = NoLowering

EnforceArrayAccess ==
    /\ phase = "index"
    /\ \E e \in IndexAccessExprs : Enforced(e)

IndexNext == EnforceArrayAccess

IndexSpec == IndexInit /\ [][IndexNext]_vars

----------------------------------------------------------------------------
(* Lowering sessions: an untyped expression is converted; a grammar        *)
(* conditional is converted and then executed                              *)

TrueText == <<"t", "r", "u", "e">>
FalseText == <<"f", "a", "l", "s", "e">>
\* the text of 2^32, the least number that is no u32
TooLargeText == <<"4", "2", "9", "4", "9", "6", "7", "2", "9", "6">>

UntypedLiterals ==
    {ast_Value("U32", text) : text \in {<<"0">>, <<"1">>, <<"0", "1">>, TooLargeText, <<"x">>, <<>>}}
    \cup {ast_Value("Field", text) : text \in {<<"0">>, <<"1">>, <<"5">>, <<"x">>, <<>>}}
    \cup {ast_Value("Boolean", text) : text \in {TrueText, FalseText, <<"1">>, <<>>}}
UntypedOperands ==
    {ast_Value("U32", <<"1">>), ast_Value("Field", <<"1">>), ast_Value("Boolean", TrueText), ast_Variable("a"),
     ast_Value("U32", <<"x">>)}
UntypedInner ==
    {ast_NotExpression(ast_Variable("b")),
     ast_BinaryExpression("Add", ast_Variable("a"), ast_Value("U32", <<"1">>)),
     ast_BinaryExpression("Neq", ast_Variable("a"), ast_Value("U32", <<"1">>))}
UntypedExpressions ==
    UntypedLiterals \cup UntypedOperands \cup UntypedInner
    \cup {ast_NotExpression(e) : e \in UntypedOperands \cup UntypedInner}
    \cup {ast_BinaryExpression(operation, l, r) :
            operation \in BinaryOperators, l \in UntypedOperands, r \in UntypedOperands}
    \cup {ast_BinaryExpression(operation, l, r) :
            operation \in BinaryOperators, l \in UntypedInner, r \in UntypedInner}

\* the chains if (c1) {s1} else if (c2) {s2} ... of at most n links, with and
\* without a final else
RECURSIVE GrammarChains(_, _)
GrammarChains(i, n) ==
    LET block == GrammarBlock(<<"s" \o DigitChars[i + 1]>>)
        conditions == {GrammarBoolean(TrueText), GrammarBoolean(FalseText)}
        nexts == {None, Some(GrammarEnd(GrammarBlock(<<"s0">>)))}
                 \cup (IF i < n THEN {Some(GrammarNested(s)) : s \in GrammarChains(i + 1, n)}
                       ELSE {})
    IN  {GrammarConditionalStatement(c, block, next) : c \in conditions, next \in nexts}
GrammarConditionals == GrammarChains(1, MaxChain)

LoweringInit ==
    /\ phase = "untyped"
    /\ pos = 1
    /\ store = Globals
    /\ cs = <<>>
    /\ trace = <<>>
    /\ expr = NoExpr
    /\ resolved = [ok |-> TRUE, val |-> NoValue, err |-> "none"]
    /\ before = [store |-> Globals, cs |-> <<>>]
    /\ built = <<>>
    /\ visibility = None
    /\ parameter_type = "FieldElement"
    /\ input = <<>>
    /\ untyped \in UntypedExpressions \cup GrammarConditionals
    /\ lowered = NoLowering

\* types::Expression::from applied to the untyped expression
ExpressionFrom ==
    /\ phase = "untyped"
    /\ untyped.rule # "conditional"
    /\ lowered' = Expression_from(untyped, 1)
    /\ phase' = "lowered"
    /\ UNCHANGED <<pos, store, cs, trace, expr, resolved, before, built, visibility,
                   parameter_type, input, untyped>>

\* ConditionalStatement::from applied to the grammar conditional
ConditionalFrom ==
    /\ phase = "untyped"
    /\ untyped.rule = "conditional"
    /\ lowered' = ConditionalStatement_from(untyped)
    /\ phase' = "conditional"
    /\ UNCHANGED <<pos, store, cs, trace, expr, resolved, before, built, visibility,
                   parameter_type, input, untyped>>

\* the lowered conditional executed in the scope of main
EnforceConditional ==
    /\ phase = "conditional"
    /\ LET r == enforce_conditional_statement(Machine(store, cs, <<>>), Scope, lowered, 0)
       IN  /\ store' = r.m.store
           /\ cs' = r.m.cs
           /\ trace' = r.m.trace
           /\ before' = Snapshot
           /\ resolved' = Outcome(r)
           /\ phase' = "finished"
    /\ UNCHANGED <<pos, expr, built, visibility, parameter_type, input, untyped, lowered>>

LoweringNext ==
    \/ ExpressionFrom
    \/ ConditionalFrom
    \/ EnforceConditional

LoweringSpec == LoweringInit /\ [][LoweringNext]_vars

----------------------------------------------------------------------------
(* Reading the trace of the enforced expression *)

Done == phase = "done"

\* positions of the events of kind ev at depth d
At(ev, d) == {i \in 1..Len(trace) : trace[i].ev = ev /\ trace[i].depth = d}
Min(S) == CHOOSE x \in S : \A y \in S : x <= y
Max(S) == CHOOSE x \in S : \A y \in S : y <= x
IsAllocation(entry) == entry.kind \in {"alloc", "alloc_input"}
\* the cs only grows by evaluation: what was there before is a prefix
Extends == Len(cs) >= Len(before.cs) /\ SubSeq(cs, 1, Len(before.cs)) = before.cs

----------------------------------------------------------------------------
(* Properties *)

\* C1: for a binary expression with operator add, sub, mul, div, pow, or, and,
\* eq, the left operand is evaluated completely, with every constraint it
\* emits, before the evaluation of the right operand starts, and both operands
\* are evaluated before the operator's builder runs: the constraints appear in
\* the order left operand, right operand, operator.
C1_LeftThenRightThenOperator ==
    (Done /\ expr.tag \in NumericTags \cup BooleanTags) =>
        LET enters == At("enter", 1)
            exits == At("exit", 1)
            builders == At("builder", 0)
        IN  /\ Extends
            /\ trace[1].ev = "enter" /\ trace[1].depth = 0 /\ trace[1].expr = expr
            \* the left operand starts first, before anything is emitted
            /\ 2 \in enters /\ trace[2].expr = expr.left /\ trace[2].ncs = Len(before.cs)
            /\ Cardinality(enters) <= 2 /\ Cardinality(exits) <= Cardinality(enters)
            \* the right operand starts right after the left operand has returned
            /\ \A i \in enters \ {2} :
                  /\ trace[i].expr = expr.right
                  /\ (i - 1) \in exits /\ trace[i - 1].expr = expr.left
                  /\ trace[i].ncs = trace[i - 1].ncs
            \* the builder runs right after the right operand has returned
            /\ \A i \in builders :
                  /\ Cardinality(exits) = 2
                  /\ (i - 1) \in exits /\ i - 1 = Max(exits) /\ trace[i - 1].expr = expr.right
                  /\ trace[i].ncs = trace[i - 1].ncs
            /\ resolved.ok => builders # {}

\* C1 witness: both operands and the operator emit a constraint
C1_Witness ==
    /\ Done /\ resolved.ok /\ expr.tag = "Add"
    /\ expr.left.tag = "Add" /\ expr.right.tag = "Add"
    /\ Cardinality(At("exit", 1)) = 2
    /\ Len(before.cs) < trace[Min(At("exit", 1))].ncs
    /\ trace[Min(At("exit", 1))].ncs < trace[Max(At("exit", 1))].ncs
    /\ trace[Max(At("exit", 1))].ncs < Len(cs)

\* C2: evaluating a leaf (an integer, field-element or boolean literal, or a
\* variable reference) makes no allocation and emits no constraint, so an
\* expression that references a bound variable several times adds no
\* allocation to the one made when the variable was bound.
C2_LeavesNeverAllocate ==
    Done =>
        /\ \A i \in 1..Len(trace) :
              (trace[i].ev = "enter" /\ trace[i].expr.tag \in LeafTags) =>
                  (IF i < Len(trace) THEN trace[i + 1].ncs ELSE Len(cs)) = trace[i].ncs
        /\ SelectSeq(cs, IsAllocation) = SelectSeq(before.cs, IsAllocation)

\* C2 witness: the parameter a is referenced twice and was allocated once
C2_Witness ==
    /\ Done /\ resolved.ok
    /\ Cardinality({i \in 1..Len(trace) :
                       trace[i].ev = "enter" /\ trace[i].expr = Var("a")}) = 2
    /\ Cardinality({i \in 1..Len(cs) : IsAllocation(cs[i]) /\ cs[i].name = "a"}) = 1

\* C3: of an if-else expression only the taken branch is evaluated: the second
\* sub-expression when the condition resolved to the constant true, the third
\* otherwise; its value is the result, and the other branch is never entered,
\* so it emits nothing and cannot fail.
C3_OnlyTakenBranch ==
    (Done /\ expr.tag = "IfElse") =>
        LET enters == At("enter", 1)
            exits == At("exit", 1)
        IN  /\ 2 \in enters /\ trace[2].expr = expr.first
            /\ (exits # {} /\ trace[Min(exits)].val.kind = "Boolean") =>
                  LET c == Min(exits)
                      taken == IF trace[c].val = Boolean_Constant(TRUE)
                               THEN expr.second ELSE expr.third
                  IN  /\ Cardinality(enters) = 2
                      /\ (c + 1) \in enters /\ trace[c + 1].expr = taken
                      /\ resolved.ok =>
                            /\ Cardinality(exits) = 2
                            /\ trace[Max(exits)].expr = taken
                            /\ resolved.val = trace[Max(exits)].val
                            /\ Len(cs) = trace[Max(exits)].ncs
                      /\ ~resolved.ok => Cardinality(exits) = 1

\* C3 witness: the condition is the constant true, the taken branch emits a
\* constraint and the branch not taken would have been fatal
C3_Witness ==
    /\ Done /\ resolved.ok
    /\ expr = Expression_IfElse(Expression_Boolean(TRUE),
                                Expression_Binary("Add", Var("a"), I(1)),
                                Expression_Binary("Geq", Var("a"), I(1)))
    /\ resolved.val.kind = "U32"
    /\ Len(cs) = Len(before.cs) + 1

\* C4: the condition of an if-else expression must resolve to a concrete
\* Boolean: when it resolves to a non-boolean value or to a Boolean that is an
\* allocated variable, evaluation fails with a type mismatch and neither branch
\* is evaluated.
C4_ConditionMustBeConcreteBoolean ==
    (Done /\ expr.tag = "IfElse") =>
        LET exits == At("exit", 1)
        IN  (exits # {} /\ ~(trace[Min(exits)].val.kind = "Boolean"
                             /\ trace[Min(exits)].val.const)) =>
                /\ ~resolved.ok
                /\ resolved.err = "if else conditional must resolve to boolean"
                /\ Cardinality(At("enter", 1)) = 1

\* C5: a struct literal is accepted only when its member list matches the
\* declared field list exactly in name and order: a missing, extra, misnamed or
\* misordered member is fatal and yields no struct instance.
C5_StructLiteralMatchesDeclaration ==
    (Done /\ expr.tag = "Struct" /\ expr.variable \in DOMAIN before.store
          /\ before.store[expr.variable].kind = "StructDefinition") =>
        LET fields == before.store[expr.variable].fields
            declared == [i \in 1..Len(fields) |-> fields[i].variable]
            given == [i \in 1..Len(expr.members) |-> expr.members[i].variable]
        IN  given # declared => ~resolved.ok

\* the base of the enforced array access resolved to an array
ArrayAccessed ==
    /\ Done /\ expr.tag = "ArrayAccess"
    /\ At("exit", 1) # {} /\ trace[Min(At("exit", 1))].val.kind = "Array"
\* the elements of that array
Accessed == trace[Min(At("exit", 1))].val.elems
U32Constant(n) == ResolvedValue_U32(Some(n), FALSE)

\* C6: a range access a[from..to] on an array of length n returns exactly the
\* elements a[from], ..., a[to-1] in order, lower bound inclusive and upper
\* bound exclusive, an omitted from being 0 and an omitted to being n; for
\* [1,2,3,4,5]: [1..3] gives [2,3], [..2] gives [1,2], [3..] gives [4,5].
C6_RangeIsHalfOpenSlice ==
    /\ (ArrayAccessed /\ expr.index.range) =>
          LET from == IF is_some(expr.index.from) THEN unwrap(expr.index.from) ELSE 0
              to == IF is_some(expr.index.to) THEN unwrap(expr.index.to) ELSE Len(Accessed)
          IN  /\ (from <= to /\ to <= Len(Accessed)) => resolved.ok
              /\ resolved.ok =>
                    /\ resolved.val.kind = "Array"
                    /\ Len(resolved.val.elems) = to - from
                    /\ \A k \in 1..(to - from) :
                          resolved.val.elems[k] = Accessed[from + k]
    /\ (Done /\ expr = Expression_ArrayAccess(Iota(5), RangeOrExpression_Range(Some(1), Some(3))))
          => resolved.val = ResolvedValue_Array(<<U32Constant(2), U32Constant(3)>>)
    /\ (Done /\ expr = Expression_ArrayAccess(Iota(5), RangeOrExpression_Range(None, Some(2))))
          => resolved.val = ResolvedValue_Array(<<U32Constant(1), U32Constant(2)>>)
    /\ (Done /\ expr = Expression_ArrayAccess(Iota(5), RangeOrExpression_Range(Some(3), None)))
          => resolved.val = ResolvedValue_Array(<<U32Constant(4), U32Constant(5)>>)

\* C6 witness: [1,2,3,4,5][1..3] resolved to [2,3]
C6_Witness ==
    /\ ArrayAccessed /\ resolved.ok
    /\ expr = Expression_ArrayAccess(Iota(5), RangeOrExpression_Range(Some(1), Some(3)))
    /\ resolved.val = ResolvedValue_Array(<<U32Constant(2), U32Constant(3)>>)

\* C7: an out-of-range array access is fatal and returns no value: a plain
\* index i >= length, a range whose upper bound exceeds the length and a range
\* whose lower bound exceeds its upper bound all abort; no access yields an
\* element from outside the array or wraps around.
C7_OutOfRangeIsFatal ==
    ArrayAccessed =>
        IF expr.index.range
        THEN LET from == IF is_some(expr.index.from) THEN unwrap(expr.index.from) ELSE 0
                 to == IF is_some(expr.index.to) THEN unwrap(expr.index.to)
                       ELSE Len(Accessed)
             IN  (to > Len(Accessed) \/ from > to) =>
                     (~resolved.ok /\ resolved.val = NoValue)
        ELSE LET exits == At("exit", 1)
                 index == trace[Max(exits)].val
             IN  (Cardinality(exits) = 2 /\ index.kind = "U32" /\ is_some(index.value)) =>
                     IF unwrap(index.value) >= Len(Accessed)
                     THEN ~resolved.ok /\ resolved.val = NoValue
                     ELSE resolved.ok /\ resolved.val = Accessed[unwrap(index.value) + 1]

\* C7 witness: the index 3 into an array of length 3 aborted the evaluation
C7_Witness ==
    /\ ArrayAccessed /\ ~resolved.ok
    /\ expr = Expression_ArrayAccess(Iota(3), RangeOrExpression_Expression(I(3)))
    /\ resolved.err = "index out of bounds"

\* the two operands of the enforced binary expression both resolved
OperandsResolved == Done /\ Cardinality(At("exit", 1)) = 2
LeftValue == trace[Min(At("exit", 1))].val
RightValue == trace[Max(At("exit", 1))].val

\* C8: for add, sub, mul, div and pow the operator builder is invoked only when
\* both resolved operands are bounded integers or both are field elements; any
\* other pairing is a fatal type error and no builder is invoked for it.
C8_NumericOperandsSameKind ==
    (OperandsResolved /\ expr.tag \in NumericTags) =>
        LET numeric == /\ LeftValue.kind = RightValue.kind
                       /\ LeftValue.kind \in {"U32", "FieldElement"}
        IN  /\ numeric <=> At("builder", 0) # {}
            /\ ~numeric =>
                  /\ ~resolved.ok
                  /\ resolved.err \in {"cannot add", "cannot subtract", "cannot multiply"}
                  /\ Len(cs) = trace[Max(At("exit", 1))].ncs

\* C8 witness: an integer added to a field element was refused
C8_Witness ==
    /\ OperandsResolved /\ ~resolved.ok
    /\ expr = Expression_Binary("Add", Var("a"), Var("f"))
    /\ LeftValue.kind = "U32" /\ RightValue.kind = "FieldElement"
    /\ resolved.err = "cannot add"
    /\ At("builder", 0) = {}

\* C9: equality succeeds only for two Booleans, two bounded integers or two
\* field elements, and then returns a Boolean; every cross-kind pairing and
\* every pairing with an array, struct or function value is fatal.
C9_EqualitySameKind ==
    (OperandsResolved /\ expr.tag = "Eq") =>
        LET comparable == /\ LeftValue.kind = RightValue.kind
                          /\ LeftValue.kind \in {"Boolean", "U32", "FieldElement"}
        IN  /\ resolved.ok <=> comparable
            /\ resolved.ok => resolved.val.kind = "Boolean"
            /\ ~comparable => resolved.err = "cannot enforce equality"

\* C9 witness: an integer compared for equality with a Boolean was refused
C9_Witness ==
    /\ OperandsResolved /\ ~resolved.ok
    /\ expr = Expression_Binary("Eq", Var("a"), Var("b"))
    /\ LeftValue.kind = "U32" /\ RightValue.kind = "Boolean"
    /\ resolved.err = "cannot enforce equality"

\* C10: evaluating a comparison (>=, >, <=, <) fails explicitly: it returns no
\* value, and when it fails it has emitted no constraint and made no
\* allocation, its operands not having been evaluated.
C10_ComparisonFailsBeforeOperands ==
    (Done /\ expr.tag \in ComparisonTags) =>
        /\ ~resolved.ok /\ resolved.val = NoValue
        /\ resolved.err = "expression unimplemented"
        /\ cs = before.cs
        /\ Len(trace) = 1 /\ trace[1].ev = "enter" /\ trace[1].expr = expr

\* C10 witness: a comparison whose operands would each have emitted a constraint
C10_Witness ==
    /\ Done /\ ~resolved.ok
    /\ expr = Expression_Binary("Geq", Expression_Binary("Add", Var("a"), I(1)),
                                Expression_Binary("Add", Var("a"), I(1)))
    /\ cs = before.cs

\* C11: a variable reference evaluated in scope S resolves in a fixed order: the
\* binding of the name in S when there is one (a local binding shadows a global
\* struct or function of the same name), otherwise the global struct/function
\* of that bare name, otherwise evaluation is fatal (unresolved variable) and no
\* value is produced.
C11_LocalThenGlobalThenFatal ==
    (Done /\ expr.tag = "Variable") =>
        LET local == new_scope_from_variable(Scope, expr.name)
        IN  /\ store = before.store /\ cs = before.cs
            /\ IF local \in DOMAIN before.store
               THEN resolved.ok /\ resolved.val = before.store[local]
               ELSE IF expr.name \in DOMAIN before.store
               THEN resolved.ok /\ resolved.val = before.store[expr.name]
               ELSE /\ ~resolved.ok /\ resolved.val = NoValue
                    /\ resolved.err = "variable declaration not found"

\* C11 witness: bar is a global function and a local integer; the reference
\* resolved to the local integer
C11_Witness ==
    /\ Done /\ resolved.ok /\ expr = Var("bar")
    /\ before.store["bar"].kind = "Function"
    /\ before.store[new_scope_from_variable(Scope, "bar")] = U32Constant(2)
    /\ resolved.val = U32Constant(2)

\* the values of the depth-1 sub-expressions that returned, in the order they did
Resolved1 ==
    LET exits == SelectSeq(trace, LAMBDA event : event.ev = "exit" /\ event.depth = 1)
    IN  [i \in 1..Len(exits) |-> exits[i].val]
\* the depth-1 sub-expressions whose evaluation started, in the order they did
Entered1 ==
    LET enters == SelectSeq(trace, LAMBDA event : event.ev = "enter" /\ event.depth = 1)
    IN  [i \in 1..Len(enters) |-> enters[i].expr]
PlainOf(elements) == SelectSeq(elements, LAMBDA element : ~element.spread)
IsPrefix(p, q) == Len(p) <= Len(q) /\ SubSeq(q, 1, Len(p)) = p

\* the array named by a spread element in the scope of main
SpreadArray(element) ==
    before.store[new_scope_from_variable(Scope, element.expression.name)].elems

RECURSIVE Spliced(_, _)
\* elements with each plain element replaced by the next of values and each
\* spread element by the contents of the array it names
Spliced(elements, values) ==
    IF Len(elements) = 0 THEN <<>>
    ELSE IF Head(elements).spread
    THEN SpreadArray(Head(elements)) \o Spliced(Tail(elements), values)
    ELSE <<Head(values)>> \o Spliced(Tail(elements), Tail(values))

RECURSIVE SpreadLength(_)
SpreadLength(elements) ==
    IF Len(elements) = 0 THEN 0
    ELSE (IF Head(elements).spread THEN Len(SpreadArray(Head(elements))) ELSE 0)
         + SpreadLength(Tail(elements))

\* C12: an array literal processes its elements in source order and returns the
\* in-order concatenation of each plain element's resolved value (one entry)
\* and each spread element's array contents (all entries, expanded in place);
\* its length is the number of plain elements plus the sum of the lengths of
\* the spread arrays.
C12_ArrayLiteralConcatenates ==
    (Done /\ expr.tag = "Array") =>
        LET plain == PlainOf(expr.elements)
            expressions == [i \in 1..Len(plain) |-> plain[i].expression]
        IN  /\ IsPrefix(Entered1, expressions)
            /\ resolved.ok =>
                  /\ Entered1 = expressions
                  /\ Len(Resolved1) = Len(plain)
                  /\ resolved.val = ResolvedValue_Array(Spliced(expr.elements, Resolved1))
                  /\ Len(resolved.val.elems) = Len(plain) + SpreadLength(expr.elements)

\* C12 witness: [a, ...arr, a + 1] resolved to five entries, arr in the middle
C12_Witness ==
    /\ Done /\ resolved.ok
    /\ expr = Expression_Array(<<Plain(Var("a")), SpreadOrExpression_Spread(Var("arr")),
                                 Plain(Expression_Binary("Add", Var("a"), I(1)))>>)
    /\ Len(resolved.val.elems) = 5
    /\ SubSeq(resolved.val.elems, 2, 4) = before.store["main_arr"].elems
    /\ resolved.val.elems[1] = before.store["main_a"]
    /\ resolved.val.elems[5].kind = "U32"

\* the spread element names a variable bound to an array in the scope of main
SpreadsArray(element) ==
    /\ element.expression.tag = "Variable"
    /\ new_scope_from_variable(Scope, element.expression.name) \in DOMAIN before.store
    /\ before.store[new_scope_from_variable(Scope, element.expression.name)].kind = "Array"
\* positions of the spread elements of the enforced literal that do not
BadSpreads ==
    {i \in 1..Len(expr.elements) :
        expr.elements[i].spread /\ ~SpreadsArray(expr.elements[i])}
SpreadErrors ==
    {"spreads only implemented for arrays",
     "cannot copy elements from array that does not exist"}

\* C13: a spread element is fatal unless its operand is a variable bound in the
\* current scope to an array: spreading a variable bound to a non-array value,
\* an unbound variable, or any expression that is not a bare variable reference
\* aborts evaluation and no array is returned.
C13_SpreadOnlyOfBoundArray ==
    (Done /\ expr.tag = "Array" /\ BadSpreads # {}) =>
        LET first == Min(BadSpreads)
            plain_before == Len(PlainOf(SubSeq(expr.elements, 1, first - 1)))
        IN  /\ ~resolved.ok /\ resolved.val = NoValue
            \* it is the spread that aborts once the elements before it resolved
            /\ Len(Resolved1) = plain_before => resolved.err \in SpreadErrors
            /\ Len(Resolved1) <= plain_before
            /\ Len(Entered1) <= plain_before + 1

\* C13 witness: [a + 1, ...s]: the first element resolved, then the spread of
\* the struct instance s aborted
C13_Witness ==
    /\ Done /\ ~resolved.ok
    /\ expr = Expression_Array(<<Plain(Expression_Binary("Add", Var("a"), I(1))),
                                 SpreadOrExpression_Spread(Var("s"))>>)
    /\ before.store["main_s"].kind = "StructExpression"
    /\ Len(Resolved1) = 1
    /\ resolved.err = "spreads only implemented for arrays"

\* C14: in an array access the base is evaluated first and must resolve to an
\* array, otherwise the access is fatal and the index expression is never
\* evaluated; a plain index must resolve to a bounded integer carrying a
\* concrete value: an index that resolves to any other kind, or to an integer
\* without a concrete value, is fatal.
C14_BaseThenConcreteIndex ==
    (Done /\ expr.tag = "ArrayAccess" /\ ~expr.index.range) =>
        /\ trace[2].ev = "enter" /\ trace[2].depth = 1 /\ trace[2].expr = expr.array
        /\ IsPrefix(Entered1, <<expr.array, expr.index.expression>>)
        /\ (Len(Resolved1) >= 1 /\ Resolved1[1].kind # "Array") =>
              /\ ~resolved.ok /\ resolved.val = NoValue
              /\ resolved.err = "Cannot access element of untyped array"
              /\ Entered1 = <<expr.array>>
              /\ Len(cs) = trace[Max(At("exit", 1))].ncs
        /\ (Len(Resolved1) >= 1 /\ Resolved1[1].kind = "Array") =>
              Entered1 = <<expr.array, expr.index.expression>>
        /\ Len(Resolved1) = 2 =>
              LET index == Resolved1[2]
              IN  /\ (index.kind # "U32" \/ ~is_some(index.value)) =>
                        /\ ~resolved.ok /\ resolved.val = NoValue
                        /\ resolved.err \in {"From index must resolve to an integer",
                                              "called Option::unwrap() on a None value"}
                  /\ resolved.ok => (index.kind = "U32" /\ is_some(index.value))

\* C14 witness: the index resolved to an integer gadget without a concrete
\* value and the access aborted
C14_Witness ==
    /\ Done /\ ~resolved.ok
    /\ expr = Expression_ArrayAccess(Iota(3), RangeOrExpression_Expression(Var("n")))
    /\ Len(Resolved1) = 2 /\ Resolved1[1].kind = "Array"
    /\ Resolved1[2] = ResolvedValue_U32(None, TRUE)
    /\ resolved.err = "called Option::unwrap() on a None value"

\* C15: a struct literal whose type name is absent from the global table, or
\* is bound there to something other than a struct definition (a function, for
\* example), is fatal; none of its member expressions is evaluated and no
\* constraint is emitted.
C15_UndeclaredStructType ==
    (Done /\ expr.tag = "Struct"
          /\ (expr.variable \notin DOMAIN before.store
               \/ before.store[expr.variable].kind # "StructDefinition")) =>
        /\ ~resolved.ok /\ resolved.val = NoValue
        /\ resolved.err =
              IF expr.variable \in DOMAIN before.store
              THEN "Inline struct type is not defined as a struct"
              ELSE "Struct must be declared before it is used in an inline expression"
        /\ Entered1 = <<>> /\ Len(trace) = 1
        /\ cs = before.cs /\ store = before.store

\* C15 witness: foo { x: a + 1 } with foo a function: fatal, the member not
\* entered
C15_Witness ==
    /\ Done /\ ~resolved.ok
    /\ expr = Expression_Struct("foo", <<StructMember("x", Expression_Binary("Add", Var("a"), I(1)))>>)
    /\ before.store["foo"].kind = "Function"
    /\ resolved.err = "Inline struct type is not defined as a struct"
    /\ cs = before.cs

\* the enforced expression is a struct literal whose member names are the
\* declared field names, in the declared order
MatchingStructLiteral ==
    /\ Done /\ expr.tag = "Struct" /\ expr.variable \in DOMAIN before.store
    /\ before.store[expr.variable].kind = "StructDefinition"
    /\ LET fields == before.store[expr.variable].fields
       IN  [i \in 1..Len(fields) |-> fields[i].variable]
               = [i \in 1..Len(expr.members) |-> expr.members[i].variable]

\* C16: for a struct literal that matches its declaration every member
\* expression is evaluated exactly once, in declaration order, with its
\* constraints emitted, whether or not the member's value kind agrees with the
\* declared field type; the result is a struct instance carrying the type name
\* and the literal's member bindings in their original order.
C16_MembersEvaluatedOnceInOrder ==
    MatchingStructLiteral =>
        LET expressions == [i \in 1..Len(expr.members) |-> expr.members[i].expression]
        IN  /\ IsPrefix(Entered1, expressions)
            /\ Extends
            /\ resolved.ok =>
                  /\ Entered1 = expressions
                  /\ Len(Resolved1) = Len(expressions)
                  /\ resolved.val = ResolvedValue_StructExpression(expr.variable, expr.members)
                  /\ Len(cs) = trace[Max(At("exit", 1))].ncs
            \* only a member expression that is fatal itself stops the literal
            /\ ~resolved.ok =>
                  /\ Len(Resolved1) = Len(Entered1) - 1
                  /\ resolved.err = "variable declaration not found"

\* C16 witness: Point { x: a + 1, y: b }: y is declared u32 and given a
\* Boolean; both members were resolved, x emitting a constraint
C16_Witness ==
    /\ MatchingStructLiteral /\ resolved.ok
    /\ expr = Expression_Struct("Point",
                  <<StructMember("x", Expression_Binary("Add", Var("a"), I(1))),
                    StructMember("y", Var("b"))>>)
    /\ Len(Resolved1) = 2 /\ Resolved1[1].kind = "U32" /\ Resolved1[2].kind = "Boolean"
    /\ Len(cs) = Len(before.cs) + 1

\* the base of the enforced member access returned a value
MemberAccessed ==
    Done /\ expr.tag = "StructMemberAccess" /\ Len(Resolved1) >= 1
\* positions of the members of the requested name in the instance the base
\* resolved to
Requested ==
    {i \in 1..Len(Resolved1[1].members) :
        Resolved1[1].members[i].variable = expr.struct_member}

\* C17: struct member access is fatal when the base resolves to anything other
\* than a struct instance and when the instance has no member of the requested
\* name; when the member exists, the first member of that name is selected.
C17_MemberAccessSelectsFirst ==
    MemberAccessed =>
        IF Resolved1[1].kind # "StructExpression"
        THEN /\ ~resolved.ok /\ resolved.val = NoValue
             /\ resolved.err = "Cannot access element of untyped struct"
             /\ Entered1 = <<expr.struct_variable>>
        ELSE IF Requested = {}
        THEN /\ ~resolved.ok /\ resolved.val = NoValue
             /\ resolved.err = "Cannot access struct member"
             /\ Entered1 = <<expr.struct_variable>>
        ELSE /\ Entered1 = <<expr.struct_variable,
                              Resolved1[1].members[Min(Requested)].expression>>
             /\ resolved.ok => (Len(Resolved1) = 2 /\ resolved.val = Resolved1[2])

\* C17 witness: the instance has two members named x; the access selected the
\* first
C17_Witness ==
    /\ MemberAccessed /\ resolved.ok
    /\ Resolved1[1].kind = "StructExpression"
    /\ Requested = {1, 3} /\ expr.struct_member = "x"
    /\ Entered1[2] = I(1) /\ Resolved1[1].members[3].expression = Var("a")
    /\ resolved.val = U32Constant(1)

\* the values the members of the accessed instance resolved to when its literal
\* was evaluated: within the enforced expression when the base is a literal,
\* in the definition of s when the base is the variable s
Constructed ==
    IF expr.struct_variable.tag = "Struct"
    THEN LET exits == SelectSeq(trace, LAMBDA event : event.ev = "exit" /\ event.depth = 2)
         IN  [i \in 1..Len(exits) |-> exits[i].val]
    ELSE built
\* a member of a constructed instance is accessed
ConstructedMemberAccessed ==
    /\ MemberAccessed /\ Resolved1[1].kind = "StructExpression"
    /\ expr.struct_variable \in {Var("s")} \cup StructLiterals
    /\ Requested # {} /\ Min(Requested) <= Len(Constructed)

\* C18: accessing member m of a struct instance yields the value m's
\* expression had when the struct literal was evaluated, independent of the
\* scope of the access and of any rebinding of variables between construction
\* and access, and the access itself emits no additional constraints.
C18_MemberValueFixedAtConstruction ==
    ConstructedMemberAccessed =>
        /\ resolved.ok
        /\ resolved.val = Constructed[Min(Requested)]
        /\ Len(cs) = trace[Min(At("exit", 1))].ncs

\* positions in the trace where a function activation was entered
Activations == {i \in 1..Len(trace) : trace[i].ev = "activation"}

\* C19: in a function call the base expression is evaluated first and must
\* resolve to a function reference; if it resolves to anything else the call is
\* fatal, no argument is evaluated and no activation is entered; otherwise the
\* arguments are evaluated and the function's activation is entered exactly
\* once, with the arguments in their positional order.
C19_CallBaseThenActivation ==
    (Done /\ expr.tag = "FunctionCall") =>
        /\ trace[2].ev = "enter" /\ trace[2].depth = 1 /\ trace[2].expr = expr.function
        /\ Len(Resolved1) = 0 => (Activations = {} /\ Entered1 = <<expr.function>>)
        /\ (Len(Resolved1) >= 1 /\ Resolved1[1].kind # "Function") =>
              /\ ~resolved.ok /\ resolved.val = NoValue
              /\ resolved.err = "Cannot call unknown function"
              /\ Entered1 = <<expr.function>> /\ Activations = {}
              /\ Len(cs) = trace[Min(At("exit", 1))].ncs /\ store = before.store
        /\ (Len(Resolved1) >= 1 /\ Resolved1[1].kind = "Function") =>
              LET function == Resolved1[1].function
                  base == Min(At("exit", 1))
              IN  \* one activation, entered right after the base returned
                  /\ Activations = {base + 1}
                  /\ trace[base + 1].op = function.function_name
                  /\ trace[base + 1].expr.arguments = expr.arguments
                  \* the arguments are resolved in their positional order
                  /\ IsPrefix(Entered1, <<expr.function>> \o expr.arguments \o function.returns)
                  \* and, their number being the parameters', bound by position
                  /\ (Len(Resolved1) > Len(expr.arguments)
                          /\ Len(function.parameters) = Len(expr.arguments)) =>
                        \A i \in 1..Len(expr.arguments) :
                            store[new_scope_from_variable(function.function_name,
                                                         function.parameters[i].variable)]
                                = Resolved1[1 + i]
                  /\ resolved.ok =>
                        Entered1 = <<expr.function>> \o expr.arguments \o function.returns

\* C19 witness: foo(1, 1 + 1) entered foo once with x bound to 1 and y to 2
C19_Witness ==
    /\ Done /\ resolved.ok
    /\ expr = Expression_FunctionCall(Var("foo"), <<I(1), Expression_Binary("Add", I(1), I(1))>>)
    /\ Cardinality(Activations) = 1
    /\ store["foo_x"] = U32Constant(1) /\ store["foo_y"] = U32Constant(2)
    /\ resolved.val = ResolvedValue_Return(<<U32Constant(1), U32Constant(3)>>)

\* the allocations made for the parameter of the given name
AllocationsOf(name) == SelectSeq(cs, LAMBDA entry : IsAllocation(entry) /\ entry.name = name)
\* the parameters of main have been bound
ParametersBound == phase \in {"body", "done"} \/ (phase = "aborted" /\ Len(cs) >= 3)

\* C20: a parameter declared public is allocated as a public input, and a
\* parameter declared private or declared with no visibility is allocated as a
\* private witness; no parameter is ever allocated with the kind opposite to
\* its declared (or defaulted) visibility, and the two kinds use distinct
\* allocation operations.
C20_VisibilityDecidesAllocation ==
    /\ \A i \in 1..Len(cs) :
          IsAllocation(cs[i]) =>
              cs[i].kind = IF cs[i].name = "f" /\ visibility = Some("Public")
                           THEN "alloc_input" ELSE "alloc"
    /\ ParametersBound =>
          /\ Len(AllocationsOf("f")) = 1
          /\ AllocationsOf("f")[1] =
                IF visibility = Some("Public") THEN cs_alloc_input(Machine(<<>>, <<>>, <<>>), "f").cs[1]
                ELSE cs_alloc(Machine(<<>>, <<>>, <<>>), "f").cs[1]
    /\ cs_alloc(Machine(<<>>, <<>>, <<>>), "f") # cs_alloc_input(Machine(<<>>, <<>>, <<>>), "f")

\* C20 witness: f is declared public and was allocated as a public input,
\* after a and b, declared without visibility, were allocated as witnesses
C20_Witness ==
    /\ ParametersBound /\ visibility = Some("Public")
    /\ [i \in 1..3 |-> cs[i].kind] = <<"alloc", "alloc", "alloc_input">>
    /\ cs[3].name = "f"

\* the binder of the field-element parameter f has just returned
FieldParameterBound == phase = "body" /\ pos = 1
\* the text it read at f's positional index
FieldInput == unwrap(args_nth(input, 3))

\* C21: binding one field-element parameter performs exactly one
\* constraint-system allocation and creates exactly one scope entry: the entry
\* is keyed by the parameter's name under the activation's scope and holds the
\* external input value read for that positional index; no other scope entry
\* is added, changed or removed.
C21_OneAllocationOneScopeEntry ==
    FieldParameterBound =>
        LET name == new_variable_from_variable(Scope, "f")
        IN  /\ Len(cs) = Len(before.cs) + 1 /\ Extends
            /\ IsAllocation(cs[Len(cs)]) /\ cs[Len(cs)].name = "f"
            /\ name \notin DOMAIN before.store
            /\ DOMAIN store = DOMAIN before.store \cup {name}
            /\ \A n \in DOMAIN before.store : store[n] = before.store[n]
            /\ store[name].kind = "FieldElement"
            /\ is_decimal(FieldInput) =>
                  store[name] = ResolvedValue_FieldElement(decimal(FieldInput) % FieldModulus)

\* C21 witness: the input 2 at index 3 was bound to main_f with one allocation
C21_Witness ==
    /\ FieldParameterBound /\ FieldInput = <<"2">>
    /\ store["main_f"] = ResolvedValue_FieldElement(2)
    /\ "main_f" \notin DOMAIN before.store
    /\ Len(cs) = 3 /\ cs[3].name = "f"

\* the binder of the third parameter, declared as a field array, has acted
FieldArrayParameterReached == parameter_type = "FieldElementArray" /\ pos = 3 /\ phase # "params"

\* C22: binding a field-array parameter fails closed: the binder always aborts
\* and never performs an allocation or creates a scope entry, so no program
\* with such a parameter proceeds to its body.
C22_FieldArrayParameterAborts ==
    parameter_type = "FieldElementArray" =>
        /\ phase \in {"params", "aborted"}
        /\ "main_f" \notin DOMAIN store
        /\ \A i \in 1..Len(cs) : cs[i].name # "f"
        /\ FieldArrayParameterReached =>
              /\ phase = "aborted"
              /\ resolved.err = "Cannot enforce field element array as parameter"
              /\ cs = before.cs
              /\ store = before.store

\* C22 witness: with an input present at index 3 the field-array binder
\* aborted after the two earlier parameters were bound and allocated
C22_Witness ==
    /\ FieldArrayParameterReached /\ phase = "aborted"
    /\ args_nth(input, 3) = Some(<<"1">>)
    /\ Len(cs) = 2 /\ cs = before.cs
    /\ DOMAIN store = DOMAIN Globals \cup {"main_a", "main_b"}

\* the binder of the third parameter, declared as a field element, has acted
FieldParameterReached ==
    /\ parameter_type = "FieldElement"
    /\ FieldParameterBound \/ (phase = "aborted" /\ pos = 3)
\* no input at f's positional index, or one that is not a field element
FieldInputUnusable ==
    ~is_some(args_nth(input, 3)) \/ ~is_some(parse_field(unwrap(args_nth(input, 3))))

\* C23: a parameter whose external input is missing or cannot be parsed as a
\* field element aborts the compilation: no allocation occurs, no scope entry
\* is created and no substitute value such as zero is bound.
C23_UnusableInputAborts ==
    (FieldParameterReached /\ FieldInputUnusable) =>
        /\ phase = "aborted"
        /\ cs = before.cs
        /\ store = before.store

FieldOperation ==
    /\ OperandsResolved
    /\ expr.tag \in NumericTags \cup {"Eq"}
    /\ LeftValue.kind = "FieldElement" /\ RightValue.kind = "FieldElement"
    /\ expr.tag = "Div" => field_inverses(RightValue.fe) # {}

\* C25: every operator builder for field-element operands (add, sub, mul, div,
\* pow and eq) emits the constraints realizing its relation on the constraint
\* system and returns a value usable as a further operand, so that the result
\* of an operation on an allocated field-element parameter is tied by
\* constraints to that allocation.
C25_FieldBuildersEmitConstraints ==
    FieldOperation =>
        /\ resolved.ok
        /\ resolved.val.kind \in {"FieldElement", "Boolean"}
        /\ At("builder", 0) # {}
        /\ Len(cs) > trace[Max(At("builder", 0))].ncs
        /\ cs[Len(cs)].kind = "constraint"

\* the enforced struct literal was rejected for a member name that differs
\* from the declared field at its position
StructLiteralRejected ==
    /\ Done /\ expr.tag = "Struct"
    /\ ~resolved.ok /\ resolved.err = "struct field variables do not match"

\* C26: whenever a struct literal is rejected because a member name does not
\* match the declared field at the same position, no member expression of the
\* literal has been evaluated and no constraint belonging to one has been
\* emitted.
C26_StructRejectedBeforeEmission ==
    StructLiteralRejected =>
        /\ Entered1 = <<>>
        /\ cs = before.cs

\* the expression has a function call among its sub-expressions
RECURSIVE ContainsFunctionCall(_)
ContainsFunctionCall(e) ==
    CASE e.tag = "FunctionCall" -> TRUE
      [] e.tag \in BinaryTags ->
            ContainsFunctionCall(e.left) \/ ContainsFunctionCall(e.right)
      [] e.tag = "Not" -> ContainsFunctionCall(e.expression)
      [] e.tag = "IfElse" ->
            \/ ContainsFunctionCall(e.first)
            \/ ContainsFunctionCall(e.second)
            \/ ContainsFunctionCall(e.third)
      [] e.tag = "Array" ->
            \E i \in 1..Len(e.elements) : ContainsFunctionCall(e.elements[i].expression)
      [] e.tag = "ArrayAccess" ->
            \/ ContainsFunctionCall(e.array)
            \/ ~e.index.range /\ ContainsFunctionCall(e.index.expression)
      [] e.tag = "Struct" ->
            \E i \in 1..Len(e.members) : ContainsFunctionCall(e.members[i].expression)
      [] e.tag = "StructMemberAccess" -> ContainsFunctionCall(e.struct_variable)
      [] OTHER -> FALSE

\* C29: evaluating an expression that contains no function call leaves the
\* variable environment unchanged: every scope-local and global binding has
\* the same name and value as before, and no binding was added or removed.
C29_EnvironmentUnchangedWithoutCall ==
    (Done /\ ~ContainsFunctionCall(expr)) => store = before.store

\* the links of a lowered else-if chain and of a grammar chain, first link first
RECURSIVE Links(_)
Links(statement) ==
    <<statement>> \o (IF is_some(statement.next) /\ unwrap(statement.next).nested
                      THEN Links(unwrap(statement.next).statement) ELSE <<>>)
RECURSIVE GrammarLinks(_)
GrammarLinks(statement) ==
    <<statement>> \o (IF is_some(statement.next) /\ unwrap(statement.next).rule = "nested"
                      THEN GrammarLinks(unwrap(statement.next).statement) ELSE <<>>)
\* the typed block has the statements of the grammar block, in order
SameBlock(block, grammar) ==
    /\ Len(block.statements) = Len(grammar.statements)
    /\ \A j \in 1..Len(block.statements) :
          block.statements[j].statement = grammar.statements[j]

ConditionalLowered == phase \in {"conditional", "finished"}
ConditionalExecuted == phase = "finished"
ConditionsEvaluated == SelectSeq(trace, LAMBDA event : event.ev = "condition")
BlocksExecuted == SelectSeq(trace, LAMBDA event : event.ev = "block")

\* C27: a conditional statement has one condition, one block and at most one
\* continuation (a nested conditional or a final else block), and lowering
\* preserves all three; in an else-if chain the continuation of a link is
\* evaluated only when that link's condition was false, so at most one block
\* of the whole chain is executed and no link after the first true condition
\* is evaluated.
C27_ConditionalChain ==
    ConditionalLowered =>
        LET links == Links(lowered)
            grammar == GrammarLinks(untyped)
            conditions == ConditionsEvaluated
            blocks == BlocksExecuted
        IN  /\ Len(links) = Len(grammar)
            /\ \A i \in 1..Len(links) :
                  /\ DOMAIN links[i] = {"condition", "block", "next"}
                  /\ links[i].condition = Expression_Boolean(grammar[i].condition.value = TrueText)
                  /\ SameBlock(links[i].block, grammar[i].block)
                  /\ is_some(links[i].next) <=> is_some(grammar[i].next)
                  /\ is_some(links[i].next) =>
                        /\ unwrap(links[i].next).nested <=> unwrap(grammar[i].next).rule = "nested"
                        /\ ~unwrap(links[i].next).nested =>
                              SameBlock(unwrap(links[i].next).block, unwrap(grammar[i].next).block)
            /\ ConditionalExecuted =>
                  /\ Len(blocks) <= 1
                  /\ Len(conditions) \in 1..Len(links)
                  /\ \A i \in 1..Len(conditions) :
                        /\ conditions[i].expr = links[i].condition
                        /\ conditions[i].val.b = links[i].condition.b
                        /\ i < Len(conditions) => ~conditions[i].val.b
                  /\ LET last == links[Len(conditions)]
                     IN  IF conditions[Len(conditions)].val.b
                         THEN /\ Len(blocks) = 1
                              /\ blocks[1].expr.statements = last.block.statements
                         ELSE IF is_some(last.next)
                         THEN /\ ~unwrap(last.next).nested
                              /\ Len(blocks) = 1
                              /\ blocks[1].expr.statements = unwrap(last.next).block.statements
                         ELSE blocks = <<>>
                  /\ blocks # <<>> => trace[Len(trace)].ev = "block"

\* C27 witness: of a chain of three links with a final else the first condition
\* was false and the second true: the second block alone ran and the third
\* link was never evaluated
C27_Witness ==
    /\ ConditionalExecuted
    /\ Len(Links(lowered)) = 3 /\ is_some(Links(lowered)[3].next)
    /\ Len(ConditionsEvaluated) = 2
    /\ ~ConditionsEvaluated[1].val.b /\ ConditionsEvaluated[2].val.b
    /\ Len(BlocksExecuted) = 1
    /\ BlocksExecuted[1].expr.statements = <<[statement |-> "s2"]>>

\* a binary expression of the untyped tree has been converted
BinaryLowered == phase = "lowered" /\ untyped.rule = "Binary"

\* C28: lowering any binary expression of the untyped tree terminates and
\* yields one typed node: for each of the 13 binary operators the conversion
\* returns after lowering the left and right operands once each, and a != b
\* lowers to Not(Eq(a, b)).
C28_BinaryLoweringTerminates ==
    BinaryLowered =>
        LET l == Expression_from(untyped.left, 2)
            r == Expression_from(untyped.right, 2)
        IN  (l.ok /\ r.ok) =>
                /\ lowered.ok
                /\ lowered.val =
                      IF untyped.operation = "Neq"
                      THEN Expression_Not(Expression_Binary("Eq", l.val, r.val))
                      ELSE Expression_Binary(untyped.operation, l.val, r.val)
                /\ lowered.calls = <<untyped>> \o l.calls \o r.calls

\* a literal of the untyped tree has been converted
LiteralLowered == phase = "lowered" /\ untyped.rule \in {"U32", "Field", "Boolean"}

\* C30: lowering never silently substitutes a different value for a literal:
\* for every literal kind (u32, field element, boolean) a literal whose text
\* cannot be parsed as that kind, a u32 literal greater than 2^32 - 1 included,
\* makes lowering fatal; it is never replaced by a default such as zero.
C30_LiteralNeverSubstituted ==
    LiteralLowered =>
        CASE untyped.rule = "U32" ->
                IF is_decimal(untyped.value) /\ fits_u32(untyped.value)
                THEN lowered.ok /\ lowered.val = Expression_Integer(decimal(untyped.value))
                ELSE ~lowered.ok
          [] untyped.rule = "Field" ->
                IF is_decimal(untyped.value)
                THEN /\ lowered.ok
                     /\ lowered.val = Expression_FieldElement(decimal(untyped.value) % FieldModulus)
                ELSE ~lowered.ok
          [] untyped.rule = "Boolean" ->
                IF untyped.value \in {TrueText, FalseText}
                THEN lowered.ok /\ lowered.val = Expression_Boolean(untyped.value = TrueText)
                ELSE ~lowered.ok

====
